---------------------------- MODULE Spec2Model ----------------------------
(***************************************************************************)
(* Model of the Trident installer, cli/cmd/install.go.                     *)
(*                                                                         *)
(* One installer process runs installTrident as a sequence of blocking     *)
(* calls to its collaborators (the Kubernetes client, the UCP client and   *)
(* the storage backend).  Every collaborator call is one action; its       *)
(* answer is chosen by the environment.  The cluster is the shared state   *)
(* that survives from one run of the installer to the next.                *)
(***************************************************************************)
EXTENDS Integers, Sequences, FiniteSets, TLC

(***************************************************************************)
(* Bounds of the model.                                                    *)
(***************************************************************************)
\* number of collaborator calls that the environment lets fail
MaxFailures == 1
\* longest name and longest volume size given on the command line
MaxNameLen == 3
MaxSizeLen == 3
\* poll timeout (--k8s-timeout) in ticks of the back-off clock
k8sTimeout == 2

(***************************************************************************)
(* Names fixed by the arguments (processInstallationArguments).            *)
(***************************************************************************)
TridentPodNamespace == "trident"
pvcName == "trident"
pvName == "trident"
OtherName == "other"

TridentLabelValue == "trident.netapp.io"
TridentCSILabelValue == "controller.csi.trident.netapp.io"

\* Kubernetes minor versions the model distinguishes
ChapVersionMin == 7
KubernetesCSIVersionMin == 10
Versions == {6, 7, 10}

Flavors == {"k8s", "openshift"}
\* --volume-size as given: a sequence of the tokens of a quantity
VolumeSizes == {<<"2", "Gi">>, <<"Gi">>}

VARIABLES
    \* CLI flags and cluster facts, fixed for the behaviour
    csi, ucpBearerToken, ucpHost, flavor, version, dryRun, volumeSize,
    argNames,    \* the spelling of the namespace, PVC and PV names
    generateYAML,
    files,       \* kinds of the manifest files in the setup directory
    useYAML,     \* --use-custom-yaml
    overrides,   \* per kind, the object written in its manifest file
    \* the cluster
    objs,        \* kinds of the plain objects that exist
    namespaceLabel, \* identity label on the namespace found by the first run
    pvc, pv,     \* the claim and the volume
    secrets,     \* names of the secrets that exist
    pod,         \* phase of the pod carrying the topology's label
    restUp,      \* the REST interface in the pod answers
    \* the running installer
    pc, returnError,
    prev,        \* how the previous run ended ("none" in the first run)
    other,       \* the suspended install run, when two run side by side
    namespaceExists, pvcExists, pvExists, storageBackend, volume,
    anyErrors, backoff,
    \* history
    calls,       \* the collaborator calls of the current run, in order
    failures,    \* number of calls the environment has failed so far
    chap         \* per secret name, what createCHAPSecret has done so far

\* what installTrident only reads: the flags, the cluster facts, the names
\* and the setup directory
flagVars == <<csi, ucpBearerToken, ucpHost, flavor, version, dryRun,
              volumeSize, argNames, generateYAML, files, useYAML, overrides,
              namespaceLabel>>
\* what a step of installTrident leaves alone: what it only reads, and the
\* suspended run
cfgVars == <<flagVars, other>>
clusterVars == <<objs, pvc, pv, secrets, pod, restUp>>
localVars == <<namespaceExists, pvcExists, pvExists, storageBackend, volume,
               anyErrors, backoff>>
histVars == <<calls, failures, chap>>
vars == <<cfgVars, clusterVars, localVars, histVars, pc, returnError, prev>>

(***************************************************************************)
(* processInstallationArguments: the identity label of the topology.       *)
(***************************************************************************)
appLabelValue == IF csi THEN TridentCSILabelValue ELSE TridentLabelValue

Labels == {"none", TridentLabelValue, TridentCSILabelValue}

(***************************************************************************)
(* The manifest files of the setup directory that are validated before     *)
(* they are submitted (--use-custom-yaml).  Of the object in a file the    *)
(* model keeps whether it can be read, the label values on the object and  *)
(* on its pod template, its containers, its name and its namespace.        *)
(***************************************************************************)
TridentNodeLabelValue == "node.csi.trident.netapp.io"
ContainerTrident == "trident-main"

OverrideKinds == {"pvc", "deployment", "service", "statefulset", "daemonset"}

\* kinds that have a pod template
TemplateKinds == {"deployment", "statefulset", "daemonset"}

\* the manifest rendered for each kind (lines 663, 722, 744, 763, 783)
RenderedManifest(kind) ==
    LET label == IF kind = "daemonset" THEN TridentNodeLabelValue
                 ELSE appLabelValue
    IN [readable |-> TRUE,
        labels |-> {label},
        podLabels |-> IF kind \in TemplateKinds THEN {label} ELSE {},
        containers |-> IF kind \in TemplateKinds
                        THEN {[name |-> ContainerTrident, image |-> "trident"]}
                        ELSE {},
        name |-> IF kind = "pvc" THEN pvcName ELSE kind,
        namespace |-> TridentPodNamespace]

RenderedManifests == [kind \in OverrideKinds |-> RenderedManifest(kind)]

\* fileExists, behind the flag (lines 626, 654, 713, 735, 754, 774, 862,
\* 878, 892)
UseFile(kind) == useYAML /\ kind \in files

\* the image of the container named trident-main, "" if there is none
\* (lines 1146-1151)
TridentImageOf(b) ==
    IF \E c \in b.containers : c.name = ContainerTrident /\ c.image # ""
        THEN (CHOOSE c \in b.containers :
                    c.name = ContainerTrident /\ c.image # "").image
        ELSE ""

\* validateTridentPVC, lines 1244-1269
validateTridentPVC(b) ==
    IF ~b.readable THEN "could not load PVC YAML file"
    ELSE IF appLabelValue \notin b.labels
        THEN "the Trident PVC must have the label"
    ELSE IF b.name # pvcName THEN "the Trident PVC must be named"
    ELSE IF b.namespace # TridentPodNamespace
        THEN "the Trident PVC must specify namespace"
    ELSE "nil"

\* mutant: the label of the pod template is not looked at
validateTridentDeployment_objectOnly(b) ==
    IF ~b.readable THEN "could not load deployment YAML file"
    ELSE IF appLabelValue \notin b.labels
        THEN "the Trident deployment must have the label"
    ELSE IF TridentImageOf(b) = ""
        THEN "the Trident deployment must define the container"
    ELSE "nil"

\* validateTridentDeployment, lines 1125-1157
validateTridentDeployment(b) ==
    IF ~b.readable THEN "could not load deployment YAML file"
    ELSE IF appLabelValue \notin b.labels
        THEN "the Trident deployment must have the label"
    ELSE IF appLabelValue \notin b.podLabels
        THEN "the Trident deployment's pod template must have the label"
    ELSE IF TridentImageOf(b) = ""
        THEN "the Trident deployment must define the container"
    ELSE "nil"

\* validateTridentService, lines 1159-1174
validateTridentService(b) ==
    IF ~b.readable THEN "could not load service YAML file"
    ELSE IF appLabelValue \notin b.labels
        THEN "the Trident service must have the label"
    ELSE "nil"

\* validateTridentStatefulSet, lines 1176-1208
validateTridentStatefulSet(b) ==
    IF ~b.readable THEN "could not load statefulset YAML file"
    ELSE IF appLabelValue \notin b.labels
        THEN "the Trident statefulset must have the label"
    ELSE IF appLabelValue \notin b.podLabels
        THEN "the Trident statefulset's pod template must have the label"
    ELSE IF TridentImageOf(b) = ""
        THEN "the Trident statefulset must define the container"
    ELSE "nil"

\* validateTridentDaemonSet, lines 1210-1242: the label looked for is the
\* node label
validateTridentDaemonSet(b) ==
    IF ~b.readable THEN "could not load daemonset YAML file"
    ELSE IF TridentNodeLabelValue \notin b.labels
        THEN "the Trident daemonset must have the label"
    ELSE IF TridentNodeLabelValue \notin b.podLabels
        THEN "the Trident daemonset's pod template must have the label"
    ELSE IF TridentImageOf(b) = ""
        THEN "the Trident daemonset must define the container"
    ELSE "nil"

(***************************************************************************)
(* Cluster objects.                                                        *)
(***************************************************************************)
NoPVC == [phase |-> "Absent", volumeName |-> "", label |-> "none"]
NilRef == [name |-> "nil", namespace |-> "nil"]
NoPV == [phase |-> "Absent", claimRef |-> NilRef, label |-> "none",
         shape |-> "none", secretRef |-> "", capacity |-> <<>>]
IntendedRef == [name |-> pvcName, namespace |-> TridentPodNamespace]

ClaimRefs == {NilRef, IntendedRef,
              [name |-> OtherName, namespace |-> TridentPodNamespace],
              [name |-> pvcName, namespace |-> OtherName]}

\* claims a cluster can hold before the installer first runs
InitPVCs ==
    {NoPVC} \cup
    {p \in [phase : {"Pending", "Bound", "Lost"},
            volumeName : {"", pvName, OtherName},
            label : Labels] :
        /\ p.phase = "Pending" => p.volumeName = ""
        /\ p.phase = "Bound" => p.volumeName # ""
        /\ p.phase = "Lost" => p.volumeName = pvName}

\* volumes a cluster can hold before the installer first runs
InitPVs ==
    {NoPV} \cup
    {v \in [phase : {"Available", "Bound", "Released", "Failed"},
            claimRef : ClaimRefs,
            label : Labels,
            shape : {"nfs"},
            secretRef : {""},
            capacity : {<<"2", "Gi">>}] :
        /\ v.phase = "Available" => v.claimRef = NilRef
        /\ v.phase \in {"Released", "Failed"} => v.claimRef = IntendedRef}

\* the binding of a claim and a volume is mutual
BindingConsistent(p, v) ==
    /\ (p.phase = "Bound" /\ p.volumeName = pvName) =>
            (v.phase = "Bound" /\ v.claimRef = IntendedRef)
    /\ (v.phase = "Bound" /\ v.claimRef = IntendedRef) =>
            (p.phase = "Bound" /\ p.volumeName = pvName)

(***************************************************************************)
(* The access information of an allocated backend volume                   *)
(* (volume.Config.AccessInfo): which fields the backend populated.         *)
(***************************************************************************)
NoVolume == [nfsServerIP |-> "", iscsiTargetPortal |-> "",
             iscsiTargetSecret |-> "", iscsiUsername |-> ""]
AccessInfos ==
    {a \in [nfsServerIP : {"", "10.0.0.1"},
            iscsiTargetPortal : {"", "10.0.0.2:3260"},
            iscsiTargetSecret : {"", "s3cret"},
            iscsiUsername : {"", "a", "b"}] :
        /\ (a.iscsiTargetSecret # "") <=> (a.iscsiUsername # "")
        /\ a.iscsiTargetSecret # "" => a.iscsiTargetPortal # ""
        /\ a.nfsServerIP # "" => a.iscsiTargetSecret = ""}

\* volume.ConstructExternal().GetCHAPSecretName()
GetCHAPSecretName(vol) == "trident-chap-" \o vol.iscsiUsername


SecretNames == {GetCHAPSecretName(a) : a \in {x \in AccessInfos : x.iscsiTargetSecret # ""}}

(***************************************************************************)
(* discoverInstallationEnvironment: native RBAC unless UCP credentials     *)
(* were supplied.                                                          *)
(***************************************************************************)
\* mutant: only the bearer token switches to UCP
useKubernetesRBAC_tokenOnly == ~(ucpBearerToken # "")

useKubernetesRBAC == ~(ucpBearerToken # "" \/ ucpHost # "")

(***************************************************************************)
(* resource.ParseQuantity: an optional sign, one or more digits and an     *)
(* optional binary suffix.  The result is an error or a quantity, of which *)
(* the model keeps the sign.                                               *)
(***************************************************************************)
QuantityDigits == {"0", "2"}
QuantitySuffixes == {"Gi"}
QuantityTokens == {"-"} \cup QuantityDigits \cup QuantitySuffixes

ParseQuantitySign(size) ==
    LET unsigned == IF Len(size) > 0 /\ size[1] = "-" THEN Tail(size) ELSE size
        number == IF Len(unsigned) > 0
                        /\ unsigned[Len(unsigned)] \in QuantitySuffixes
                    THEN SubSeq(unsigned, 1, Len(unsigned) - 1)
                    ELSE unsigned
    IN IF Len(number) = 0 \/ \E i \in 1..Len(number) :
                                number[i] \notin QuantityDigits
        THEN "error"
       ELSE IF \A i \in 1..Len(number) : number[i] = "0" THEN "zero"
       ELSE IF unsigned # size THEN "negative"
       ELSE "positive"

\* lines 455-456: err == nil
ParseQuantityOk(size) == ParseQuantitySign(size) # "error"

\* the value of a quantity that parses: leading zeros do not count
RECURSIVE StripZeros(_)
StripZeros(number) ==
    IF Len(number) > 1 /\ number[1] = "0" THEN StripZeros(Tail(number))
    ELSE number

QuantityValue(size) ==
    LET unsigned == IF size[1] = "-" THEN Tail(size) ELSE size
    IN IF ParseQuantitySign(size) = "zero" THEN <<"0">>
       ELSE (IF unsigned # size THEN <<"-">> ELSE <<>>) \o
            (IF unsigned[Len(unsigned)] \in QuantitySuffixes
                THEN StripZeros(SubSeq(unsigned, 1, Len(unsigned) - 1))
                        \o <<unsigned[Len(unsigned)]>>
                ELSE StripZeros(unsigned))

\* Quantity.Cmp(other) = 0
QuantityEqual(a, b) == QuantityValue(a) = QuantityValue(b)

(***************************************************************************)
(* The names as spelled on the command line, as sequences of characters:   *)
(* a lower-case alphanumeric, a dash, a dot and a character that no name   *)
(* may hold.  The empty PVC or PV name stands for the flag not given.      *)
(***************************************************************************)
NameChars == {"a", "-", ".", "A"}
DefaultPVCName == <<"a">>
DefaultPVName == <<"a">>
DefaultNames == [namespace |-> <<"a">>, pvc |-> DefaultPVCName,
                 pv |-> DefaultPVName]

\* [a-z0-9]
IsAlnum(c) == c \in {"a"}

\* dns1123LabelRegex, line 99: ^[a-z0-9]([-a-z0-9]*[a-z0-9])?$
dns1123LabelRegex(s) ==
    /\ Len(s) >= 1
    /\ IsAlnum(s[1])
    /\ Len(s) > 1 =>
        /\ \A i \in 2..(Len(s) - 1) : IsAlnum(s[i]) \/ s[i] = "-"
        /\ IsAlnum(s[Len(s)])

\* dns1123DomainRegex, line 100: a label followed by any number of
\* groups of a dot and a label; the match is tried for every length of
\* the leading label
RECURSIVE dns1123DomainRegex(_)
dns1123DomainRegex(s) ==
    \/ dns1123LabelRegex(s)
    \/ \E k \in 1..(Len(s) - 2) :
          /\ dns1123LabelRegex(SubSeq(s, 1, k))
          /\ s[k + 1] = "."
          /\ dns1123DomainRegex(SubSeq(s, k + 2, Len(s)))

(***************************************************************************)
(* Initial state: the flags, the cluster facts and the cluster as found by *)
(* the first run.  No RBAC object, workload or pod of Trident exists yet.   *)
(***************************************************************************)
\* the credential flags a run is started with
UCPCredentials == {<<"", "">>, <<"token", "ucp.example">>}

NilBackend == [pools |-> -1]

NoCHAP == [calls |-> 0, creates |-> 0, created |-> 0, failed |-> FALSE,
           existed |-> FALSE]

\* an install run that has just been started: its position, its variables
\* (lines 444-452) and the calls it has made
FreshRun(n) ==
    [run |-> n, pc |-> "start", returnError |-> "nil",
     namespaceExists |-> FALSE, pvcExists |-> FALSE, pvExists |-> FALSE,
     storageBackend |-> NilBackend, volume |-> NoVolume, anyErrors |-> FALSE,
     backoff |-> [elapsed |-> 0, interval |-> 1], calls |-> <<>>]

\* no second run
NoRun == [run |-> 0, pc |-> "done"]

\* The state after flag parsing and before the first run.  The enumerated
\* starts keep the state space finite: a UCP run and a run that finds a
\* CHAP secret left behind are taken with the plain (non-CSI) topology at
\* ChapVersionMin; RBACSpec covers every flavor with the UCP flags.
Init ==
    /\ csi \in BOOLEAN
    /\ \E c \in UCPCredentials : ucpBearerToken = c[1] /\ ucpHost = c[2]
    /\ flavor \in Flavors
    /\ (~useKubernetesRBAC) =>
            (flavor = "k8s" /\ ~csi /\ version = ChapVersionMin)
    /\ version \in Versions
    /\ version \in (IF csi THEN {7, 10} ELSE {6, 7})
    /\ dryRun \in BOOLEAN
    /\ volumeSize \in VolumeSizes
    /\ argNames = DefaultNames
    /\ generateYAML = FALSE
    /\ files = {}
    /\ useYAML = FALSE
    /\ overrides = RenderedManifests
    /\ objs \in {{}, {"namespace"}}
    /\ namespaceLabel = "none"
    /\ other = NoRun
    /\ pvc \in InitPVCs
    /\ pv \in InitPVs
    /\ ("namespace" \notin objs) => pvc = NoPVC
    /\ BindingConsistent(pvc, pv)
    /\ secrets \in {{}, {"trident-chap-a"}}
    /\ secrets # {} => (/\ pv = NoPV /\ ~csi /\ flavor = "k8s"
                         /\ useKubernetesRBAC /\ version = ChapVersionMin)
    /\ pod = "none"
    /\ restUp = FALSE
    /\ pc = "start"
    /\ returnError = "nil"
    /\ prev = "none"
    /\ namespaceExists = FALSE
    /\ pvcExists = FALSE
    /\ pvExists = FALSE
    /\ storageBackend = NilBackend
    /\ volume = NoVolume
    /\ anyErrors = FALSE
    /\ backoff = [elapsed |-> 0, interval |-> 1]
    /\ calls = <<>>
    /\ failures = 0
    /\ chap = [n \in SecretNames |-> NoCHAP]

(***************************************************************************)
(* Helpers shared by the actions.                                          *)
(***************************************************************************)
\* the answers the environment may give to a collaborator call
Outcomes == IF failures < MaxFailures THEN {TRUE, FALSE} ELSE {TRUE}

\* record one collaborator call and its outcome
Entry(op, obj, arg, ok) == [op |-> op, obj |-> obj, arg |-> arg, ok |-> ok]

Call(op, obj, ok) ==
    /\ calls' = Append(calls, Entry(op, obj, "", ok))
    /\ failures' = IF ok THEN failures ELSE failures + 1

\* record one call that submits a manifest: `arg' is "file" for the
\* manifest file of the setup directory and "" for the rendered manifest
CallWith(op, obj, arg, ok) ==
    /\ calls' = Append(calls, Entry(op, obj, arg, ok))
    /\ failures' = IF ok THEN failures ELSE failures + 1

\* continue at the next step
Goto(next) == pc' = next /\ returnError' = returnError

\* return from installTrident with an error
Return(err) == pc' = "done" /\ returnError' = err


(***************************************************************************)
(* isTridentInstalled / isCSITridentInstalled: the workload object of the  *)
(* topology exists.                                                        *)
(***************************************************************************)
isTridentInstalled == "deployment" \in objs
isCSITridentInstalled == "statefulset" \in objs

(***************************************************************************)
(* The compatibility rules applied to an existing claim (lines 519-533)    *)
(* and to an existing volume (lines 558-583): the error, or "nil".         *)
(***************************************************************************)
\* mutant: a claim in Lost phase is accepted
PVCProbeError_lostAccepted(p) ==
    IF p.phase = "Bound" /\ p.volumeName # pvName
        THEN "PVC is Bound, but not to PV"
    ELSE IF p.label = "none" \/ p.label # appLabelValue
        THEN "PVC does not have label"
    ELSE "nil"

\* mutant: a claim bound to another volume is accepted
PVCProbeError_anyVolume(p) ==
    IF p.phase = "Lost" THEN "PVC phase is Lost"
    ELSE IF p.label = "none" \/ p.label # appLabelValue
        THEN "PVC does not have label"
    ELSE "nil"

PVCProbeError(p) ==
    IF p.phase = "Lost" THEN "PVC phase is Lost"
    ELSE IF p.phase = "Bound" /\ p.volumeName # pvName
        THEN "PVC is Bound, but not to PV"
    ELSE IF p.label = "none" \/ p.label # appLabelValue
        THEN "PVC does not have label"
    ELSE "nil"

\* mutant: a volume left bound by an earlier attempt is refused
PVProbeError_rejectBound(v) ==
    IF v.phase = "Released" THEN "PV phase is Released"
    ELSE IF v.phase = "Failed" THEN "PV phase is Failed"
    ELSE IF v.phase = "Bound"
        THEN "PV is Bound, but not to PVC"
    ELSE IF v.label = "none" \/ v.label # appLabelValue
        THEN "PV does not have label"
    ELSE "nil"

\* mutant: any identity label will do, whatever its value
PVProbeError_anyLabel(v) ==
    IF v.phase = "Released" THEN "PV phase is Released"
    ELSE IF v.phase = "Failed" THEN "PV phase is Failed"
    ELSE IF v.phase = "Bound" /\ v.claimRef # NilRef
                /\ v.claimRef.name # pvcName
        THEN "PV is Bound, but not to PVC"
    ELSE IF v.phase = "Bound" /\ v.claimRef # NilRef
                /\ v.claimRef.namespace # TridentPodNamespace
        THEN "PV is Bound to a PVC in another namespace"
    ELSE IF v.label = "none"
        THEN "PV does not have label"
    ELSE "nil"

PVProbeError(v) ==
    IF v.phase = "Released" THEN "PV phase is Released"
    ELSE IF v.phase = "Failed" THEN "PV phase is Failed"
    ELSE IF v.phase = "Bound" /\ v.claimRef # NilRef
                /\ v.claimRef.name # pvcName
        THEN "PV is Bound, but not to PVC"
    ELSE IF v.phase = "Bound" /\ v.claimRef # NilRef
                /\ v.claimRef.namespace # TridentPodNamespace
        THEN "PV is Bound to a PVC in another namespace"
    ELSE IF v.label = "none" \/ v.label # appLabelValue
        THEN "PV does not have label"
    ELSE "nil"

\* first step of removeRBACObjects
FirstRemoveStep ==
    IF useKubernetesRBAC THEN "rmClusterRoleBinding" ELSE "rmUCPRoleFromSA"

\* mutant: the namespace is never created
AfterChecks_skipNamespace(nsExists) ==
    IF dryRun THEN "done" ELSE FirstRemoveStep

\* mutant: the dry-run flag is ignored
AfterChecks_ignoreDryRun(nsExists) ==
    IF ~nsExists THEN "createNamespace" ELSE FirstRemoveStep

\* lines 615-638: where the run continues once the checks have passed
AfterChecks(nsExists) ==
    IF dryRun THEN "done"
    ELSE IF ~nsExists THEN "createNamespace"
    ELSE FirstRemoveStep

\* mutant: the storage driver is not loaded before the installation steps
AfterPVProbe_skipLoad(exists, nsExists) == AfterChecks(nsExists)

\* lines 605-613: the storage driver is loaded only if the PV is absent
AfterPVProbe(exists, nsExists) ==
    IF ~exists THEN "loadStorageDriver" ELSE AfterChecks(nsExists)

(***************************************************************************)
(* installTrident, lines 454-459: validate the volume size.                *)
(***************************************************************************)
ParseQuantity ==
    /\ pc = "start"
    /\ IF ParseQuantityOk(volumeSize)
        THEN Goto("checkInstalled")
        ELSE Return("volume-size is invalid")
    /\ UNCHANGED <<cfgVars, clusterVars, localVars, histVars, prev>>

(***************************************************************************)
(* Lines 461-492: the prior-installation guard.                            *)
(***************************************************************************)
\* mutant: the guard does not look for a prior installation
CheckInstalled_noGuard ==
    /\ pc = "checkInstalled"
    /\ IF csi /\ version < KubernetesCSIVersionMin
        THEN /\ Return("CSI Trident requires a later Kubernetes")
             /\ UNCHANGED <<calls, failures>>
        ELSE \E ok \in Outcomes :
             /\ Call("check", "installed", ok)
             /\ IF ~ok THEN Return("could not check if Trident exists")
                ELSE Goto("checkNamespace")
    /\ UNCHANGED <<cfgVars, clusterVars, localVars, chap, prev>>

\* mutant: the cluster version is compared after the installation check
CheckInstalled_versionLast ==
    /\ pc = "checkInstalled"
    /\ \E ok \in Outcomes :
        /\ Call("check", "installed", ok)
        /\ IF ~ok THEN Return("could not check if Trident exists")
           ELSE IF (IF csi THEN isCSITridentInstalled
                           ELSE isTridentInstalled)
               THEN Return("Trident is already installed")
           ELSE IF csi /\ version < KubernetesCSIVersionMin
               THEN Return("CSI Trident requires a later Kubernetes")
           ELSE Goto("checkNamespace")
    /\ UNCHANGED <<cfgVars, clusterVars, localVars, chap, prev>>

\* mutant: the guard waits while another run is past its own guard
CheckInstalled_exclusive ==
    /\ pc = "checkInstalled"
    /\ other.pc \in {"start", "checkInstalled", "done"}
    /\ IF csi /\ version < KubernetesCSIVersionMin
        THEN /\ Return("CSI Trident requires a later Kubernetes")
             /\ UNCHANGED <<calls, failures>>
        ELSE \E ok \in Outcomes :
             /\ Call("check", "installed", ok)
             /\ IF ~ok THEN Return("could not check if Trident exists")
                ELSE IF (IF csi THEN isCSITridentInstalled
                                ELSE isTridentInstalled)
                    THEN Return("Trident is already installed")
                ELSE Goto("checkNamespace")
    /\ UNCHANGED <<cfgVars, clusterVars, localVars, chap, prev>>

\* mutant: the guard looks for the workload object of the other topology
CheckInstalled_otherTopology ==
    /\ pc = "checkInstalled"
    /\ IF csi /\ version < KubernetesCSIVersionMin
        THEN /\ Return("CSI Trident requires a later Kubernetes")
             /\ UNCHANGED <<calls, failures>>
        ELSE \E ok \in Outcomes :
             /\ Call("check", "installed", ok)
             /\ IF ~ok THEN Return("could not check if Trident exists")
                ELSE IF (IF csi THEN isTridentInstalled
                                ELSE isCSITridentInstalled)
                    THEN Return("Trident is already installed")
                ELSE Goto("checkNamespace")
    /\ UNCHANGED <<cfgVars, clusterVars, localVars, chap, prev>>

CheckInstalled ==
    /\ pc = "checkInstalled"
    /\ IF csi /\ version < KubernetesCSIVersionMin
        THEN /\ Return("CSI Trident requires a later Kubernetes")
             /\ UNCHANGED <<calls, failures>>
        ELSE \E ok \in Outcomes :
             /\ Call("check", "installed", ok)
             /\ IF ~ok THEN Return("could not check if Trident exists")
                ELSE IF (IF csi THEN isCSITridentInstalled
                                ELSE isTridentInstalled)
                    THEN Return("Trident is already installed")
                ELSE Goto("checkNamespace")
    /\ UNCHANGED <<cfgVars, clusterVars, localVars, chap, prev>>

(***************************************************************************)
(* Lines 494-504: does the namespace exist.                                *)
(***************************************************************************)
CheckNamespaceExists ==
    /\ pc = "checkNamespace"
    /\ \E ok \in Outcomes :
        /\ Call("check", "namespace", ok)
        /\ IF ~ok
            THEN /\ Return("could not check if namespace exists")
                 /\ UNCHANGED namespaceExists
            ELSE /\ namespaceExists' = ("namespace" \in objs)
                 /\ Goto("checkPVC")
    /\ UNCHANGED <<cfgVars, clusterVars, pvcExists, pvExists, storageBackend,
                   volume, anyErrors, backoff, chap, prev>>

(***************************************************************************)
(* Lines 506-511: does the PVC exist.                                      *)
(***************************************************************************)
CheckPVCExists ==
    /\ pc = "checkPVC"
    /\ \E ok \in Outcomes :
        /\ Call("check", "pvc", ok)
        /\ IF ~ok
            THEN /\ Return("could not establish the presence of PVC")
                 /\ UNCHANGED pvcExists
            ELSE /\ pvcExists' = (pvc # NoPVC)
                 /\ Goto(IF pvc # NoPVC THEN "getPVC" ELSE "checkPV")
    /\ UNCHANGED <<cfgVars, clusterVars, namespaceExists, pvExists,
                   storageBackend, volume, anyErrors, backoff, chap, prev>>

(***************************************************************************)
(* Lines 512-543: fetch the existing PVC and classify it.                  *)
(***************************************************************************)
GetPVC ==
    /\ pc = "getPVC"
    /\ \E ok \in Outcomes :
        /\ Call("get", "pvc", ok)
        /\ IF ~ok THEN Return("could not retrieve PVC")
           ELSE IF PVCProbeError(pvc) # "nil" THEN Return(PVCProbeError(pvc))
           ELSE Goto("checkPV")
    /\ UNCHANGED <<cfgVars, clusterVars, localVars, chap, prev>>

(***************************************************************************)
(* Lines 545-550: does the PV exist.                                       *)
(***************************************************************************)
\* mutant: a query that fails is taken for a PV that is absent
CheckPVExists_errorIsAbsent ==
    /\ pc = "checkPV"
    /\ \E ok \in Outcomes :
        /\ Call("check", "pv", ok)
        /\ pvExists' = (ok /\ pv # NoPV)
        /\ IF ok /\ pv # NoPV
            THEN Goto("getPV")
            ELSE /\ pc' = AfterPVProbe(FALSE, namespaceExists)
                 /\ returnError' = "nil"
    /\ UNCHANGED <<cfgVars, clusterVars, namespaceExists, pvcExists,
                   storageBackend, volume, anyErrors, backoff, chap, prev>>

CheckPVExists ==
    /\ pc = "checkPV"
    /\ \E ok \in Outcomes :
        /\ Call("check", "pv", ok)
        /\ IF ~ok
            THEN /\ Return("could not establish the presence of PV")
                 /\ UNCHANGED pvExists
            ELSE /\ pvExists' = (pv # NoPV)
                 /\ IF pv # NoPV
                     THEN Goto("getPV")
                     ELSE /\ pc' = AfterPVProbe(FALSE, namespaceExists)
                          /\ returnError' = "nil"
    /\ UNCHANGED <<cfgVars, clusterVars, namespaceExists, pvcExists,
                   storageBackend, volume, anyErrors, backoff, chap, prev>>

(***************************************************************************)
(* Lines 551-603: fetch the existing PV and classify it; a capacity that   *)
(* differs from the request is only logged.  Lines 605-619 follow in the   *)
(* same step when the PV is accepted.                                      *)
(***************************************************************************)
\* lines 585-594: the warning logged for the capacity of the PV, or "nil"
PVSizeWarning(v) ==
    IF v.capacity = <<>> \/ ~ParseQuantityOk(v.capacity)
        THEN "Could not determine size of existing PV"
    ELSE IF ~QuantityEqual(volumeSize, v.capacity)
        THEN "Existing PV size does not match request"
    ELSE "nil"

\* the log of the run after the PV has been fetched
LogPVSize(ok) ==
    LET got == Append(calls, Entry("get", "pv", "", ok))
    IN IF ok /\ PVProbeError(pv) = "nil" /\ PVSizeWarning(pv) # "nil"
        THEN Append(got, Entry("warn", "pv", PVSizeWarning(pv), TRUE))
        ELSE got

\* mutant: a PV of another size is refused
GetPV_sizeMustMatch ==
    /\ pc = "getPV"
    /\ \E ok \in Outcomes :
        /\ calls' = LogPVSize(ok)
        /\ failures' = IF ok THEN failures ELSE failures + 1
        /\ IF ~ok THEN Return("could not retrieve PV")
           ELSE IF PVProbeError(pv) # "nil" THEN Return(PVProbeError(pv))
           ELSE IF PVSizeWarning(pv) # "nil" THEN Return(PVSizeWarning(pv))
           ELSE /\ pc' = AfterPVProbe(TRUE, namespaceExists)
                /\ returnError' = "nil"
    /\ UNCHANGED <<cfgVars, clusterVars, localVars, chap, prev>>

GetPV ==
    /\ pc = "getPV"
    /\ \E ok \in Outcomes :
        /\ calls' = LogPVSize(ok)
        /\ failures' = IF ok THEN failures ELSE failures + 1
        /\ IF ~ok THEN Return("could not retrieve PV")
           ELSE IF PVProbeError(pv) # "nil" THEN Return(PVProbeError(pv))
           ELSE /\ pc' = AfterPVProbe(TRUE, namespaceExists)
                /\ returnError' = "nil"
    /\ UNCHANGED <<cfgVars, clusterVars, localVars, chap, prev>>

(***************************************************************************)
(* loadStorageDriver, lines 814-855: the setup directory and the backend   *)
(* config file must exist, be readable and start a backend.  Lines 615-619 *)
(* follow in the same step.                                                *)
(***************************************************************************)
PoolCounts == {0, 2}

LoadErrors == {"setup directory does not exist",
               "storage backend config file does not exist",
               "could not read the storage backend config file",
               "could not start the storage backend driver"}

loadStorageDriver ==
    /\ pc = "loadStorageDriver"
    /\ \/ \E e \in LoadErrors :
            /\ calls' = Append(calls, Entry("load", "backend", e, FALSE))
            /\ Return(e)
            /\ UNCHANGED storageBackend
       \/ \E n \in PoolCounts :
            /\ calls' = Append(calls, Entry("load", "backend", "", TRUE))
            /\ storageBackend' = [pools |-> n]
            /\ pc' = AfterChecks(namespaceExists)
            /\ returnError' = "nil"
    /\ UNCHANGED <<cfgVars, clusterVars, namespaceExists, pvcExists, pvExists,
                   volume, anyErrors, backoff, failures, chap, prev>>


(***************************************************************************)
(* Lines 624-638: create the namespace if the probe found none.            *)
(***************************************************************************)
CreateNamespace ==
    /\ pc = "createNamespace"
    /\ \E ok \in Outcomes :
        /\ CallWith("create", "namespace",
                    IF UseFile("namespace") THEN "file" ELSE "", ok)
        /\ IF ok
            THEN /\ objs' = objs \cup {"namespace"}
                 /\ Goto(FirstRemoveStep)
            ELSE /\ Return("could not create namespace")
                 /\ UNCHANGED objs
    /\ UNCHANGED <<cfgVars, pvc, pv, secrets, pod, restUp, localVars, chap,
                   prev>>

(***************************************************************************)
(* removeRBACObjects, lines 934-1003, and its caller, lines 640-645.       *)
(* Every step is attempted; a failed Kubernetes step sets anyErrors, a     *)
(* failed UCP step is only logged (lines 965 and 974).                     *)
(***************************************************************************)
\* lines 641-645 and 647-648: the caller's decision on the returned flag
AfterRemove(errs) ==
    IF errs THEN "done" ELSE "mkServiceAccount"

RemoveError(errs) ==
    IF errs THEN "could not remove one or more previous Trident artifacts"
    ELSE "nil"

\* one teardown step: a delete that counts towards anyErrors
DeleteStep(at, op, obj, next) ==
    /\ pc = at
    /\ \E ok \in Outcomes :
        /\ Call(op, obj, ok)
        /\ objs' = IF ok THEN objs \ {obj} ELSE objs
        /\ anyErrors' = (anyErrors \/ ~ok)
        /\ pc' = IF next = "end" THEN AfterRemove(anyErrors \/ ~ok) ELSE next
        /\ returnError' = IF next = "end" THEN RemoveError(anyErrors \/ ~ok)
                          ELSE "nil"
    /\ UNCHANGED <<cfgVars, pvc, pv, secrets, pod, restUp, namespaceExists,
                   pvcExists, pvExists, storageBackend, volume, backoff, chap,
                   prev>>

\* one UCP teardown step: a failure is logged and not counted
UCPRemoveStep(at, op, obj, next) ==
    /\ pc = at
    /\ \E ok \in Outcomes :
        /\ Call(op, obj, ok)
        /\ objs' = IF ok THEN objs \ {obj} ELSE objs
        /\ Goto(next)
    /\ UNCHANGED <<cfgVars, pvc, pv, secrets, pod, restUp, localVars, chap,
                   prev>>

RemoveClusterRoleBinding ==
    DeleteStep("rmClusterRoleBinding", "delete", "clusterrolebinding", "rmClusterRole")

RemoveClusterRole ==
    DeleteStep("rmClusterRole", "delete", "clusterrole", "rmServiceAccount")

RemoveTridentRoleFromServiceAccount ==
    UCPRemoveStep("rmUCPRoleFromSA", "detach", "ucprolegrant", "rmUCPRole")

DeleteTridentRole ==
    UCPRemoveStep("rmUCPRole", "delete", "ucprole", "rmServiceAccount")

RemoveServiceAccount ==
    DeleteStep("rmServiceAccount", "delete", "serviceaccount",
               IF useKubernetesRBAC /\ flavor = "openshift"
                   THEN "rmSCC" ELSE "end")

RemoveTridentUserFromOpenShiftSCC ==
    DeleteStep("rmSCC", "revoke", "scc", "end")

(***************************************************************************)
(* createRBACObjects, lines 857-932, and lines 647-650.                    *)
(***************************************************************************)
\* mutant: the PVC is created whether or not the probe found one
AfterRBAC_alwaysCreatePVC == "createPVC"

\* mutant: createPV is called whether or not the probe found the PV
AfterPVC_alwaysCreatePV == "createPV"

\* lines 674-682: createPV is called only if the probe found no PV
AfterPVC == IF ~pvExists THEN "createPV" ELSE "checkPVCBound"

\* lines 652-682: the first creation step after the RBAC objects
AfterRBAC ==
    IF ~pvcExists THEN "createPVC"
    ELSE AfterPVC

\* mutant: a failed create step removes what was created before it
CreateStep_rollback(at, op, obj, next, err) ==
    /\ pc = at
    /\ \E ok \in Outcomes :
        /\ CallWith(op, obj, IF UseFile(obj) THEN "file" ELSE "", ok)
        /\ IF ok
            THEN /\ objs' = objs \cup {obj}
                 /\ Goto(next)
            ELSE /\ objs' = {}
                 /\ Return(err)
    /\ UNCHANGED <<cfgVars, pvc, pv, secrets, pod, restUp, localVars, chap,
                   prev>>

\* one create step: a failure returns its error
CreateStep(at, op, obj, next, err) ==
    /\ pc = at
    /\ \E ok \in Outcomes :
        /\ CallWith(op, obj, IF UseFile(obj) THEN "file" ELSE "", ok)
        /\ IF ok
            THEN /\ objs' = objs \cup {obj}
                 /\ Goto(next)
            ELSE /\ UNCHANGED objs
                 /\ Return(err)
    /\ UNCHANGED <<cfgVars, pvc, pv, secrets, pod, restUp, localVars, chap,
                   prev>>

CreateServiceAccount ==
    CreateStep("mkServiceAccount", "create", "serviceaccount",
               IF useKubernetesRBAC THEN "mkClusterRole" ELSE "mkUCPRole",
               "could not create service account")

CreateClusterRole ==
    CreateStep("mkClusterRole", "create", "clusterrole",
               "mkClusterRoleBinding",
               "could not create cluster role")

CreateClusterRoleBinding ==
    CreateStep("mkClusterRoleBinding", "create", "clusterrolebinding",
               IF flavor = "openshift" THEN "mkSCC" ELSE AfterRBAC,
               "could not create cluster role binding")

AddTridentUserToOpenShiftSCC ==
    CreateStep("mkSCC", "grant", "scc", AfterRBAC,
               "could not modify security context constraint")

CreateTridentRole ==
    CreateStep("mkUCPRole", "create", "ucprole", "mkUCPRoleGrant",
               "could not create Trident UCP role")

AddTridentRoleToServiceAccount ==
    CreateStep("mkUCPRoleGrant", "attach", "ucprolegrant", AfterRBAC,
               "could not add Trident UCP role to service account")


(***************************************************************************)
(* Lines 652-672: create the PVC if the probe found none.  The rendered    *)
(* claim carries the identity label and is Pending until it is bound.      *)
(***************************************************************************)
\* the calls of one submission: the validation of the manifest file, if
\* it is used, and the create call
Submission(obj, ok) ==
    IF UseFile(obj)
        THEN <<Entry("validate", obj, "nil", TRUE),
               Entry("create", obj, "file", ok)>>
        ELSE <<Entry("create", obj, "", ok)>>

\* a manifest file that is used and does not pass its validation is
\* refused
Refused(obj, verdict, fixErr) ==
    /\ UseFile(obj)
    /\ verdict # "nil"
    /\ calls' = Append(calls, Entry("validate", obj, verdict, FALSE))
    /\ Return(fixErr)
    /\ UNCHANGED failures

CreatePVC ==
    /\ pc = "createPVC"
    /\ LET verdict == validateTridentPVC(overrides["pvc"]) IN
       IF UseFile("pvc") /\ verdict # "nil"
        THEN /\ Refused("pvc", verdict, "please correct the PVC YAML file")
             /\ UNCHANGED pvc
        ELSE \E ok \in Outcomes :
            /\ calls' = calls \o Submission("pvc", ok)
            /\ failures' = IF ok THEN failures ELSE failures + 1
            /\ IF ok
                THEN /\ pvc' = IF pvc = NoPVC
                                THEN [phase |-> "Pending", volumeName |-> "",
                                      label |-> appLabelValue]
                                ELSE pvc
                     /\ Goto(AfterPVC)
                ELSE /\ UNCHANGED pvc
                     /\ Return("could not create PVC")
    /\ UNCHANGED <<cfgVars, objs, pv, secrets, pod, restUp, localVars, chap,
                   prev>>

(***************************************************************************)
(* createPV, lines 1271-1351 (called at lines 674-682).                    *)
(***************************************************************************)
\* mutant: the iSCSI portal is looked at before the NFS server
PVShape_iscsiFirst(a) ==
    IF a.iscsiTargetPortal # ""
        THEN (IF a.iscsiTargetSecret # "" THEN "chap" ELSE "iscsi")
    ELSE IF a.nfsServerIP # "" THEN "nfs"
    ELSE "unrecognized"

\* lines 1301-1342: the manifest shape chosen from the access information
PVShape(a) ==
    IF a.nfsServerIP # "" THEN "nfs"
    ELSE IF a.iscsiTargetPortal # ""
        THEN (IF a.iscsiTargetSecret # "" THEN "chap" ELSE "iscsi")
    ELSE "unrecognized"

\* mutant: the cluster version is not compared with the floor
ChapSupported_anyVersion == TRUE

\* line 1314: client.Version().AtLeast("v1.7.0")
ChapSupported == version >= ChapVersionMin

\* lines 1273-1342: choose a pool, allocate the volume on the backend and
\* select the manifest shape
AddVolume ==
    /\ pc = "createPV"
    /\ IF storageBackend.pools = 0
        THEN /\ Return("backend has no storage pools")
             /\ UNCHANGED <<calls, failures, volume>>
        ELSE \E ok \in Outcomes, a \in AccessInfos :
             /\ Call("alloc", "volume", ok)
             /\ IF ~ok
                 THEN /\ Return("could not create a volume on the backend")
                      /\ UNCHANGED volume
                 ELSE /\ volume' = a
                      /\ IF PVShape(a) = "unrecognized"
                          THEN Return("unrecognized volume type")
                         ELSE IF PVShape(a) = "chap" /\ ~ChapSupported
                          THEN Return("iSCSI CHAP requires Kubernetes 1.7.0")
                         ELSE IF PVShape(a) = "chap"
                          THEN Goto("checkSecret")
                         ELSE Goto("createPVObject")
    /\ UNCHANGED <<cfgVars, clusterVars, namespaceExists, pvcExists, pvExists,
                   storageBackend, anyErrors, backoff, chap, prev>>

\* the history counts 0, 1 and "more than one"
Saturate(n) == IF n > 2 THEN 2 ELSE n

\* mutant: the secret is created whether or not it exists
CheckSecretExists_alwaysCreate ==
    /\ pc = "checkSecret"
    /\ LET name == GetCHAPSecretName(volume) IN
       \E ok \in Outcomes :
        /\ calls' = Append(calls, Entry("check", "secret", name, ok))
        /\ failures' = IF ok THEN failures ELSE failures + 1
        /\ chap' = [chap EXCEPT
                ![name].calls = Saturate(@ + 1),
                ![name].failed = @ \/ ~ok,
                ![name].existed = IF chap[name].calls = 0
                                    THEN name \in secrets ELSE @]
        /\ IF ~ok THEN Return("could not check for existing CHAP secret")
           ELSE Goto("createSecret")
    /\ UNCHANGED <<cfgVars, clusterVars, localVars, prev>>

\* createCHAPSecret, lines 1353-1362: look for the secret of the derived name
CheckSecretExists ==
    /\ pc = "checkSecret"
    /\ LET name == GetCHAPSecretName(volume) IN
       \E ok \in Outcomes :
        /\ calls' = Append(calls, Entry("check", "secret", name, ok))
        /\ failures' = IF ok THEN failures ELSE failures + 1
        /\ chap' = [chap EXCEPT
                ![name].calls = Saturate(@ + 1),
                ![name].failed = @ \/ ~ok,
                ![name].existed = IF chap[name].calls = 0
                                    THEN name \in secrets ELSE @]
        /\ IF ~ok THEN Return("could not check for existing CHAP secret")
           ELSE IF name \in secrets THEN Goto("createPVObject")
           ELSE Goto("createSecret")
    /\ UNCHANGED <<cfgVars, clusterVars, localVars, prev>>

\* createCHAPSecret, lines 1363-1384: create the secret that was not found
CreateSecret ==
    /\ pc = "createSecret"
    /\ LET name == GetCHAPSecretName(volume) IN
       \E ok \in Outcomes :
        /\ calls' = Append(calls, Entry("create", "secret", name, ok))
        /\ failures' = IF ok THEN failures ELSE failures + 1
        /\ chap' = [chap EXCEPT
                ![name].creates = Saturate(@ + 1),
                ![name].created = IF ok THEN Saturate(@ + 1) ELSE @,
                ![name].failed = @ \/ ~ok]
        /\ IF ok
            THEN /\ secrets' = secrets \cup {name}
                 /\ Goto("createPVObject")
            ELSE /\ UNCHANGED secrets
                 /\ Return("could not create CHAP secret")
    /\ UNCHANGED <<cfgVars, objs, pvc, pv, pod, restUp, localVars, prev>>

\* lines 1324 and 1344-1350: submit the PV manifest of the selected shape
CreatePVObject ==
    /\ pc = "createPVObject"
    /\ LET shape == PVShape(volume)
           ref == IF shape = "chap" THEN GetCHAPSecretName(volume) ELSE ""
       IN \E ok \in Outcomes :
        /\ calls' = Append(calls, Entry("create", "pv", shape \o ref, ok))
        /\ failures' = IF ok THEN failures ELSE failures + 1
        /\ IF ok
            THEN /\ pv' = IF pv = NoPV
                           THEN [phase |-> "Available",
                                 claimRef |-> IntendedRef,
                                 label |-> appLabelValue,
                                 shape |-> shape, secretRef |-> ref,
                                 capacity |-> volumeSize]
                           ELSE pv
                 /\ Goto("checkPVCBound")
            ELSE /\ UNCHANGED pv
                 /\ Return("could not create PV")
    /\ UNCHANGED <<cfgVars, objs, pvc, secrets, pod, restUp, localVars, chap,
                   prev>>


(***************************************************************************)
(* The bounded-retry wait (backoff.RetryNotify with MaxElapsedTime set to  *)
(* k8sTimeout): the predicate is tried; when it fails the wait stops if    *)
(* the elapsed time has passed the maximum and otherwise sleeps for the    *)
(* current interval, which then grows.                                     *)
(***************************************************************************)
NewExponentialBackOff == [elapsed |-> 0, interval |-> 1]

NextBackOff(b) ==
    [elapsed |-> b.elapsed + b.interval, interval |-> b.interval * 2]

\* mutant: the waits keep a maximum of their own, longer than the flag
MaxElapsedTime_default == k8sTimeout + 5

\* lines 700, 1404 and 1469: every wait is given the poll timeout
MaxElapsedTime == k8sTimeout

\* the wait stops once the elapsed time has exceeded the maximum
BackOffStop(b) == b.elapsed > MaxElapsedTime

\* mutant: the deployment is submitted in both topologies
FirstWorkloadStep_deploymentAlways == "createDeployment"

\* the first workload object of the topology (line 710)
FirstWorkloadStep == IF csi THEN "createService" ELSE "createDeployment"

\* mutant: a wait whose time has run out is started again
RetryNotify_retryForever(at, ready, obs, next, err, errMessages) ==
    /\ pc = at
    /\ \E ok \in (IF ready THEN Outcomes ELSE {TRUE}) :
        /\ failures' = IF ok THEN failures ELSE failures + 1
        /\ IF ready /\ ok
            THEN /\ calls' = Append(calls, Entry("observe", obs, "", TRUE))
                 /\ backoff' = NewExponentialBackOff
                 /\ Goto(next)
            ELSE IF BackOffStop(backoff)
                THEN /\ backoff' = NewExponentialBackOff
                     /\ Goto(at)
                     /\ UNCHANGED calls
                ELSE /\ backoff' = NextBackOff(backoff)
                     /\ Goto(at)
                     /\ UNCHANGED calls
    /\ UNCHANGED <<cfgVars, clusterVars, namespaceExists, pvcExists, pvExists,
                   storageBackend, volume, anyErrors, chap, prev>>

\* one attempt of a wait at `at': `ready' is what the cluster would answer;
\* when the time has run out the wait returns `err' and writes errMessages
\* to the error log
RetryNotify(at, ready, obs, next, err, errMessages) ==
    /\ pc = at
    /\ \E ok \in (IF ready THEN Outcomes ELSE {TRUE}) :
        /\ failures' = IF ok THEN failures ELSE failures + 1
        /\ IF ready /\ ok
            THEN /\ calls' = Append(calls, Entry("observe", obs, "", TRUE))
                 /\ backoff' = NewExponentialBackOff
                 /\ Goto(next)
            ELSE IF BackOffStop(backoff)
                THEN /\ Return(err)
                     /\ calls' = calls \o errMessages[ok]
                     /\ UNCHANGED backoff
                ELSE /\ backoff' = NextBackOff(backoff)
                     /\ Goto(at)
                     /\ UNCHANGED calls
    /\ UNCHANGED <<cfgVars, clusterVars, namespaceExists, pvcExists, pvExists,
                   storageBackend, volume, anyErrors, chap, prev>>

\* lines 703-706: the wait for the PVC writes nothing to the error log when
\* it times out
NoMessages == [ok \in BOOLEAN |-> <<>>]

RetryStep(at, ready, obs, next, err) ==
    RetryNotify(at, ready, obs, next, err, NoMessages)

\* lines 684-692: the PVC is checked once before any wait is set up
CheckPVCBound ==
    /\ pc = "checkPVCBound"
    /\ \E ok \in (IF pvc.phase = "Bound" THEN Outcomes ELSE {TRUE}) :
        /\ failures' = IF ok THEN failures ELSE failures + 1
        /\ IF pvc.phase = "Bound" /\ ok
            THEN /\ calls' = Append(calls, Entry("observe", "pvcBound", "", TRUE))
                 /\ Goto(FirstWorkloadStep)
            ELSE /\ Goto("waitPVCBound")
                 /\ UNCHANGED calls
        /\ backoff' = NewExponentialBackOff
    /\ UNCHANGED <<cfgVars, clusterVars, namespaceExists, pvcExists, pvExists,
                   storageBackend, volume, anyErrors, chap, prev>>

\* lines 693-708: wait for the PVC to be bound
WaitPVCBound ==
    RetryStep("waitPVCBound", pvc.phase = "Bound", "pvcBound",
              FirstWorkloadStep, "PVC was not bound")

(***************************************************************************)
(* Lines 710-792: submit the workload objects of the topology.             *)
(***************************************************************************)
\* mutant: a manifest file that does not pass its validation is replaced
\* by the rendered manifest
WorkloadStep_renderedInstead(at, obj, verdict, next, err, fixErr) ==
    /\ pc = at
    /\ \E ok \in Outcomes :
        /\ calls' = calls \o
              (IF UseFile(obj) /\ verdict = "nil" THEN Submission(obj, ok)
               ELSE <<Entry("create", obj, "", ok)>>)
        /\ failures' = IF ok THEN failures ELSE failures + 1
        /\ IF ok
            THEN /\ objs' = objs \cup {obj}
                 /\ Goto(next)
            ELSE /\ UNCHANGED objs
                 /\ Return(err)
    /\ UNCHANGED <<cfgVars, pvc, pv, secrets, pod, restUp, localVars, chap,
                   prev>>

\* one workload object: its manifest file, if it is used, is validated and
\* submitted; otherwise the rendered manifest is submitted
WorkloadStep(at, obj, verdict, next, err, fixErr) ==
    /\ pc = at
    /\ IF UseFile(obj) /\ verdict # "nil"
        THEN /\ Refused(obj, verdict, fixErr)
             /\ UNCHANGED objs
        ELSE \E ok \in Outcomes :
            /\ calls' = calls \o Submission(obj, ok)
            /\ failures' = IF ok THEN failures ELSE failures + 1
            /\ IF ok
                THEN /\ objs' = objs \cup {obj}
                     /\ Goto(next)
                ELSE /\ UNCHANGED objs
                     /\ Return(err)
    /\ UNCHANGED <<cfgVars, pvc, pv, secrets, pod, restUp, localVars, chap,
                   prev>>

\* lines 712-730
CreateDeployment ==
    WorkloadStep("createDeployment", "deployment",
                 validateTridentDeployment(overrides["deployment"]),
                 "waitPod", "could not create Trident deployment",
                 "please correct the deployment YAML file")

\* lines 734-751
CreateService ==
    WorkloadStep("createService", "service",
                 validateTridentService(overrides["service"]),
                 "createStatefulSet", "could not create Trident service",
                 "please correct the service YAML file")

\* lines 753-771
CreateStatefulSet ==
    WorkloadStep("createStatefulSet", "statefulset",
                 validateTridentStatefulSet(overrides["statefulset"]),
                 "createDaemonSet", "could not create Trident statefulset",
                 "please correct the statefulset YAML file")

\* lines 773-791
CreateDaemonSet ==
    WorkloadStep("createDaemonSet", "daemonset",
                 validateTridentDaemonSet(overrides["daemonset"]),
                 "waitPod", "could not create Trident daemonset",
                 "please correct the daemonset YAML file")

(***************************************************************************)
(* waitForTridentPod, lines 1386-1437, and waitForRESTInterface,           *)
(* lines 1439-1481 (called at lines 794-811).                              *)
(***************************************************************************)
\* mutant: success is declared as soon as the pod is running
\* one line of the error log
Logged(msg) == Entry("log", "error", msg, TRUE)

\* line 1391: the pod the last lookup left in the variable `pod', "none"
\* when there is no pod or the lookup failed
LastPodSeen(ok) == IF ok THEN pod ELSE "none"

\* lines 1412-1427: the detail put together when the wait times out, one
\* entry per sentence of the line that is logged
PodTimeoutMessages ==
    [ok \in BOOLEAN |->
        <<Logged("Trident pod was not running after k8sTimeout seconds.")>>
        \o (IF LastPodSeen(ok) # "none"
                THEN <<Logged(IF LastPodSeen(ok) = "Pending"
                                  THEN "Pod status is Pending."
                                  ELSE "Pod status is Running."),
                       Logged("Use 'describe pod' for more information.")>>
                ELSE <<>>)]

waitForTridentPod_skipREST ==
    RetryNotify("waitPod", pod = "Running", "podRunning", "done",
                "pod not running", PodTimeoutMessages)

\* the error returned on a timeout is the one checkPodRunning returned last
\* (line 1393); the detail goes to the log (line 1429)
waitForTridentPod ==
    RetryNotify("waitPod", pod = "Running", "podRunning", "waitREST",
                "pod not running", PodTimeoutMessages)

\* line 1471: the line logged when the wait for the REST interface times out
RESTTimeoutMessages ==
    [ok \in BOOLEAN |->
        <<Logged("Trident REST interface was not available after k8sTimeout seconds.")>>]

waitForRESTInterface ==
    RetryNotify("waitREST", pod = "Running" /\ restUp, "restVersion", "done",
                "Trident REST interface was not available",
                RESTTimeoutMessages)

(***************************************************************************)
(* The cluster acts on its own: the volume controller binds a pending      *)
(* claim to an available volume, the workload controller starts the pod,   *)
(* and the service in the pod comes up.                                    *)
(***************************************************************************)
BindPVC ==
    /\ pvc.phase = "Pending"
    /\ pv.phase = "Available"
    /\ pv.claimRef \in {NilRef, IntendedRef}
    /\ pvc' = [pvc EXCEPT !.phase = "Bound", !.volumeName = pvName]
    /\ pv' = [pv EXCEPT !.phase = "Bound", !.claimRef = IntendedRef]
    /\ UNCHANGED <<cfgVars, objs, secrets, pod, restUp, localVars, histVars,
                   pc, returnError, prev>>

PodScheduled ==
    /\ pod = "none"
    /\ ("deployment" \in objs \/ "statefulset" \in objs)
    /\ pod' = "Pending"
    /\ UNCHANGED <<cfgVars, objs, pvc, pv, secrets, restUp, localVars,
                   histVars, pc, returnError, prev>>

PodRunning ==
    /\ pod = "Pending"
    /\ pvc.phase = "Bound"
    /\ pod' = "Running"
    /\ UNCHANGED <<cfgVars, objs, pvc, pv, secrets, restUp, localVars,
                   histVars, pc, returnError, prev>>

RESTUp ==
    /\ pod = "Running"
    /\ ~restUp
    /\ restUp' = TRUE
    /\ UNCHANGED <<cfgVars, objs, pvc, pv, secrets, pod, localVars, histVars,
                   pc, returnError, prev>>

(***************************************************************************)
(* The installer is invoked again with the same flags (installCmd.Run,     *)
(* lines 139-163) after the previous run has returned.                     *)
(***************************************************************************)
MutatingOps == {"create", "delete", "grant", "revoke", "attach", "detach",
                "alloc"}

Mutated(cs) == \E i \in 1..Len(cs) : cs[i].op \in MutatingOps

\* what is remembered of a run that has returned: success, the error of a
\* run that changed something, or that it failed before any change
RunSummary ==
    IF returnError = "nil" THEN "nil"
    ELSE IF Mutated(calls) THEN returnError
    ELSE "failed before any change"

StartRun ==
    /\ pc = "done"
    /\ pc' = "start"
    /\ prev' = RunSummary
    /\ returnError' = "nil"
    /\ namespaceExists' = FALSE
    /\ pvcExists' = FALSE
    /\ pvExists' = FALSE
    /\ storageBackend' = NilBackend
    /\ volume' = NoVolume
    /\ anyErrors' = FALSE
    /\ backoff' = NewExponentialBackOff
    /\ calls' = <<>>
    /\ UNCHANGED <<cfgVars, clusterVars, failures, chap>>

Next ==
    \/ ParseQuantity
    \/ CheckInstalled
    \/ CheckNamespaceExists
    \/ CheckPVCExists
    \/ GetPVC
    \/ CheckPVExists
    \/ GetPV
    \/ loadStorageDriver
    \/ CreateNamespace
    \/ RemoveClusterRoleBinding
    \/ RemoveClusterRole
    \/ RemoveTridentRoleFromServiceAccount
    \/ DeleteTridentRole
    \/ RemoveServiceAccount
    \/ RemoveTridentUserFromOpenShiftSCC
    \/ CreateServiceAccount
    \/ CreateClusterRole
    \/ CreateClusterRoleBinding
    \/ AddTridentUserToOpenShiftSCC
    \/ CreateTridentRole
    \/ AddTridentRoleToServiceAccount
    \/ CreatePVC
    \/ AddVolume
    \/ CheckSecretExists
    \/ CreateSecret
    \/ CreatePVObject
    \/ CheckPVCBound
    \/ WaitPVCBound
    \/ CreateDeployment
    \/ CreateService
    \/ CreateStatefulSet
    \/ CreateDaemonSet
    \/ waitForTridentPod
    \/ waitForRESTInterface
    \/ BindPVC
    \/ PodScheduled
    \/ PodRunning
    \/ RESTUp
    \/ StartRun

Spec == Init /\ [][Next]_vars

(***************************************************************************)
(* The installer is a sequential program that is never suspended for good: *)
(* whenever installTrident has a next step, it eventually takes it.  The   *)
(* cluster's own actions and a new invocation are under no obligation to   *)
(* happen.                                                                 *)
(***************************************************************************)
\* one step of an install run
installTrident ==
    \/ ParseQuantity
    \/ CheckInstalled
    \/ CheckNamespaceExists
    \/ CheckPVCExists
    \/ GetPVC
    \/ CheckPVExists
    \/ GetPV
    \/ loadStorageDriver
    \/ CreateNamespace
    \/ RemoveClusterRoleBinding
    \/ RemoveClusterRole
    \/ RemoveTridentRoleFromServiceAccount
    \/ DeleteTridentRole
    \/ RemoveServiceAccount
    \/ RemoveTridentUserFromOpenShiftSCC
    \/ CreateServiceAccount
    \/ CreateClusterRole
    \/ CreateClusterRoleBinding
    \/ AddTridentUserToOpenShiftSCC
    \/ CreateTridentRole
    \/ AddTridentRoleToServiceAccount
    \/ CreatePVC
    \/ AddVolume
    \/ CheckSecretExists
    \/ CreateSecret
    \/ CreatePVObject
    \/ CheckPVCBound
    \/ WaitPVCBound
    \/ CreateDeployment
    \/ CreateService
    \/ CreateStatefulSet
    \/ CreateDaemonSet
    \/ waitForTridentPod
    \/ waitForRESTInterface

\* one install run, with the cluster acting on its own
LiveNext ==
    \/ installTrident
    \/ BindPVC
    \/ PodScheduled
    \/ PodRunning
    \/ RESTUp

LiveSpec == Init /\ [][LiveNext]_vars /\ WF_vars(installTrident)

(***************************************************************************)
(* Two install runs on the same namespace, started side by side with the   *)
(* same flags (two processes of installCmd.Run, lines 139-163).  The       *)
(* variables of the module are those of the run that takes the next step;  *)
(* `other' keeps those of the run that is suspended.  The runs share the   *)
(* cluster and nothing else, and the scheduler may switch between them     *)
(* before any collaborator call.                                           *)
(***************************************************************************)
\* the run that takes the next step
ThisRun == 3 - other.run

\* the variables of the run that takes the next step, as a record
Context(n) ==
    [run |-> n, pc |-> pc, returnError |-> returnError,
     namespaceExists |-> namespaceExists, pvcExists |-> pvcExists,
     pvExists |-> pvExists, storageBackend |-> storageBackend,
     volume |-> volume, anyErrors |-> anyErrors, backoff |-> backoff,
     calls |-> calls]

\* the suspended run, which has steps left, is resumed and the other one is
\* suspended
Switch ==
    /\ other.run # 0
    /\ other.pc # "done"
    /\ pc' = other.pc
    /\ returnError' = other.returnError
    /\ namespaceExists' = other.namespaceExists
    /\ pvcExists' = other.pvcExists
    /\ pvExists' = other.pvExists
    /\ storageBackend' = other.storageBackend
    /\ volume' = other.volume
    /\ anyErrors' = other.anyErrors
    /\ backoff' = other.backoff
    /\ calls' = other.calls
    /\ other' = Context(ThisRun)
    /\ UNCHANGED <<flagVars, clusterVars, failures, chap, prev>>

ConcInit ==
    /\ csi = FALSE
    /\ ucpBearerToken = "" /\ ucpHost = ""
    /\ flavor = "k8s"
    /\ version = ChapVersionMin
    /\ dryRun = FALSE
    /\ volumeSize = <<"2", "Gi">>
    /\ argNames = DefaultNames
    /\ generateYAML = FALSE
    /\ files = {}
    /\ useYAML = FALSE
    /\ overrides = RenderedManifests
    /\ objs \in {{}, {"namespace"}}
    /\ namespaceLabel = "none"
    /\ pvc = NoPVC
    /\ pv = NoPV
    /\ secrets = {}
    /\ pod = "none"
    /\ restUp = FALSE
    /\ pc = "start"
    /\ returnError = "nil"
    /\ prev = "none"
    /\ other = FreshRun(2)
    /\ namespaceExists = FALSE
    /\ pvcExists = FALSE
    /\ pvExists = FALSE
    /\ storageBackend = NilBackend
    /\ volume = NoVolume
    /\ anyErrors = FALSE
    /\ backoff = [elapsed |-> 0, interval |-> 1]
    /\ calls = <<>>
    /\ failures = MaxFailures   \* every collaborator call of the two runs succeeds
    /\ chap = [n \in SecretNames |-> NoCHAP]

ConcNext ==
    \/ ParseQuantity
    \/ CheckInstalled
    \/ CheckNamespaceExists
    \/ CheckPVCExists
    \/ GetPVC
    \/ CheckPVExists
    \/ GetPV
    \/ loadStorageDriver
    \/ CreateNamespace
    \/ RemoveClusterRoleBinding
    \/ RemoveClusterRole
    \/ RemoveServiceAccount
    \/ CreateServiceAccount
    \/ CreateClusterRole
    \/ CreateClusterRoleBinding
    \/ CreatePVC
    \/ AddVolume
    \/ CheckSecretExists
    \/ CreateSecret
    \/ CreatePVObject
    \/ CheckPVCBound
    \/ WaitPVCBound
    \/ CreateDeployment
    \/ waitForTridentPod
    \/ waitForRESTInterface
    \/ BindPVC
    \/ PodScheduled
    \/ PodRunning
    \/ RESTUp
    \/ Switch

ConcSpec == ConcInit /\ [][ConcNext]_vars

(***************************************************************************)
(* The arguments.  installCmd.PersistentPreRun, lines 123-137, runs before *)
(* Run: it discovers the environment, fills in the names that were not     *)
(* given (processInstallationArguments, lines 253-288) and validates the   *)
(* names (validateInstallationArguments, lines 290-308); any error ends    *)
(* the process.  The volume size is validated by installTrident itself.    *)
(***************************************************************************)
SeqsUpTo(S, n) == UNION {[1..k -> S] : k \in 0..n}

\* lines 255-269: a name that was not given gets the default of the topology
processInstallationArguments(n) ==
    LET suffix == IF csi THEN <<"-", "a">> ELSE <<>>
    IN [n EXCEPT !.pvc = IF @ = <<>> THEN DefaultPVCName \o suffix ELSE @,
                 !.pv = IF @ = <<>> THEN DefaultPVName \o suffix ELSE @]

\* mutant: the PVC name is matched against the label expression
validateInstallationArguments_labelOnly(n) ==
    IF ~dns1123LabelRegex(n.namespace) THEN "not a valid namespace name"
    ELSE IF ~dns1123LabelRegex(n.pvc) THEN "not a valid PVC name"
    ELSE IF ~dns1123DomainRegex(n.pv) THEN "not a valid PV name"
    ELSE "nil"

\* lines 290-308: the first name that does not match, or "nil"
validateInstallationArguments(n) ==
    IF ~dns1123LabelRegex(n.namespace) THEN "not a valid namespace name"
    ELSE IF ~dns1123DomainRegex(n.pvc) THEN "not a valid PVC name"
    ELSE IF ~dns1123DomainRegex(n.pv) THEN "not a valid PV name"
    ELSE "nil"

PersistentPreRun ==
    /\ pc = "preRun"
    /\ \/ /\ Return("could not initialize Kubernetes client")
          /\ UNCHANGED argNames
       \/ LET n == processInstallationArguments(argNames)
          IN /\ argNames' = n
             /\ IF validateInstallationArguments(n) # "nil"
                 THEN Return(validateInstallationArguments(n))
                 ELSE Goto("start")
    /\ UNCHANGED <<csi, ucpBearerToken, ucpHost, flavor, version, dryRun,
                   volumeSize, generateYAML, files, useYAML, overrides,
                   namespaceLabel, other, clusterVars, localVars, histVars,
                   prev>>

\* the names given: one of the three is spelled freely
ArgNames ==
    {[DefaultNames EXCEPT ![f] = s] :
        f \in {"namespace", "pvc", "pv"}, s \in SeqsUpTo(NameChars, MaxNameLen)}

ArgsInit ==
    /\ csi \in BOOLEAN
    /\ ucpBearerToken = "" /\ ucpHost = ""
    /\ flavor = "k8s"
    /\ version = KubernetesCSIVersionMin
    /\ dryRun = FALSE
    /\ volumeSize \in SeqsUpTo(QuantityTokens, MaxSizeLen)
    /\ argNames \in ArgNames
    /\ generateYAML = FALSE
    /\ files = {}
    /\ useYAML = FALSE
    /\ overrides = RenderedManifests
    /\ objs = {}
    /\ namespaceLabel = "none"
    /\ other = NoRun
    /\ pvc = NoPVC
    /\ pv = NoPV
    /\ secrets = {}
    /\ pod = "none"
    /\ restUp = FALSE
    /\ pc = "preRun"
    /\ returnError = "nil"
    /\ prev = "none"
    /\ namespaceExists = FALSE
    /\ pvcExists = FALSE
    /\ pvExists = FALSE
    /\ storageBackend = NilBackend
    /\ volume = NoVolume
    /\ anyErrors = FALSE
    /\ backoff = [elapsed |-> 0, interval |-> 1]
    /\ calls = <<>>
    /\ failures = 0
    /\ chap = [n \in SecretNames |-> NoCHAP]

ArgsNext ==
    \/ PersistentPreRun
    \/ ParseQuantity

ArgsSpec == ArgsInit /\ [][ArgsNext]_vars

(***************************************************************************)
(* The manifest files.  installCmd.Run, lines 139-163: with                *)
(* --generate-custom-yaml the manifests of the topology are written to the *)
(* setup directory and nothing is installed; otherwise installTrident      *)
(* runs.  prepareYAMLFiles (lines 348-386) and prepareCSIYAMLFiles (lines  *)
(* 388-436) first remove all nine files (cleanYAMLFiles, lines 341-346,    *)
(* which ignores the result of os.Remove) and then write their files one   *)
(* by one, returning the error of the first write that fails.              *)
(***************************************************************************)
\* setupYAMLPaths, lines 330-333
setupYAMLPaths == <<"namespace", "serviceaccount", "clusterrole",
                    "clusterrolebinding", "pvc", "deployment", "service",
                    "statefulset", "daemonset">>

\* the files written by prepareYAMLFiles and by prepareCSIYAMLFiles, in order
YAMLFiles == <<"namespace", "serviceaccount", "clusterrole",
               "clusterrolebinding", "pvc", "deployment">>
CSIYAMLFiles == <<"namespace", "serviceaccount", "clusterrole",
                  "clusterrolebinding", "pvc", "service", "statefulset",
                  "daemonset">>

Range(f) == {f[i] : i \in DOMAIN f}

\* mutant: the dry-run flag takes the run into the installer
Run_dryRunFirst ==
    /\ pc = "run"
    /\ Goto(IF generateYAML /\ ~dryRun THEN "cleanYAML" ELSE "start")
    /\ UNCHANGED <<cfgVars, clusterVars, localVars, histVars, prev>>

\* lines 139-163: the branch on --generate-custom-yaml
Run ==
    /\ pc = "run"
    /\ Goto(IF generateYAML THEN "cleanYAML" ELSE "start")
    /\ UNCHANGED <<cfgVars, clusterVars, localVars, histVars, prev>>

\* lines 341-346: os.Remove on each of the nine paths; a removal that
\* fails leaves its file, and nobody is told
cleanYAMLFiles ==
    /\ pc = "cleanYAML"
    /\ \E kept \in SUBSET files :
        /\ Cardinality(kept) <= MaxFailures - failures
        /\ files' = kept
        /\ failures' = failures + Cardinality(kept)
        /\ calls' = calls \o
              [i \in 1..Len(setupYAMLPaths) |->
                  Entry("remove", setupYAMLPaths[i], "file",
                        setupYAMLPaths[i] \notin kept)]
    /\ Goto("writeYAML")
    /\ UNCHANGED <<csi, ucpBearerToken, ucpHost, flavor, version, dryRun,
                   volumeSize, argNames, generateYAML, useYAML, overrides,
                   namespaceLabel, other, clusterVars, localVars, chap, prev>>

\* the number of files the run has written or tried to write
Written == Len(SelectSeq(calls, LAMBDA e : e.op = "write"))

\* one writeFile of the list `list': an error ends the process (log.Fatalf)
WriteNext(list) ==
    /\ pc = "writeYAML"
    /\ LET kind == list[Written + 1]
       IN \E ok \in Outcomes :
            /\ calls' = Append(calls, Entry("write", kind, "file", ok))
            /\ failures' = IF ok THEN failures ELSE failures + 1
            /\ IF ~ok
                THEN /\ Return("could not write YAML file")
                     /\ UNCHANGED files
                ELSE /\ files' = files \cup {kind}
                     /\ pc' = IF Written + 1 = Len(list) THEN "done"
                              ELSE "writeYAML"
                     /\ returnError' = "nil"
    /\ UNCHANGED <<csi, ucpBearerToken, ucpHost, flavor, version, dryRun,
                   volumeSize, argNames, generateYAML, useYAML, overrides,
                   namespaceLabel, other, clusterVars, localVars, chap, prev>>

prepareYAMLFiles == ~csi /\ WriteNext(YAMLFiles)

prepareCSIYAMLFiles == csi /\ WriteNext(CSIYAMLFiles)

YAMLInit ==
    /\ csi \in BOOLEAN
    /\ ucpBearerToken = "" /\ ucpHost = ""
    /\ flavor = "k8s"
    /\ version = KubernetesCSIVersionMin
    /\ dryRun \in BOOLEAN
    /\ volumeSize \in VolumeSizes
    /\ argNames = DefaultNames
    /\ generateYAML \in BOOLEAN
    /\ files \in SUBSET Range(setupYAMLPaths)
    /\ useYAML = FALSE
    /\ overrides = RenderedManifests
    /\ objs = {}
    /\ namespaceLabel = "none"
    /\ other = NoRun
    /\ pvc = NoPVC
    /\ pv = NoPV
    /\ secrets = {}
    /\ pod = "none"
    /\ restUp = FALSE
    /\ pc = "run"
    /\ returnError = "nil"
    /\ prev = "none"
    /\ namespaceExists = FALSE
    /\ pvcExists = FALSE
    /\ pvExists = FALSE
    /\ storageBackend = NilBackend
    /\ volume = NoVolume
    /\ anyErrors = FALSE
    /\ backoff = [elapsed |-> 0, interval |-> 1]
    /\ calls = <<>>
    /\ failures = 0
    /\ chap = [n \in SecretNames |-> NoCHAP]

YAMLNext ==
    \/ Run
    \/ cleanYAMLFiles
    \/ prepareYAMLFiles
    \/ prepareCSIYAMLFiles
    \/ ParseQuantity

YAMLSpec == YAMLInit /\ [][YAMLNext]_vars

(***************************************************************************)
(* The probes.  The read-only checks of installTrident, lines 454-619, on  *)
(* every claim and every volume the cluster may hold, the volume with      *)
(* every capacity: none recorded, the requested one spelled as requested   *)
(* or otherwise, and another one.  The run is a dry run, so it ends when   *)
(* the checks are over.                                                    *)
(***************************************************************************)
PVCapacities == {<<>>, <<"2", "Gi">>, <<"0", "2", "Gi">>, <<"2">>}

ProbePVs ==
    {NoPV} \cup
    {[v EXCEPT !.capacity = c] : v \in InitPVs \ {NoPV}, c \in PVCapacities}

ProbeInit ==
    /\ csi \in BOOLEAN
    /\ ucpBearerToken = "" /\ ucpHost = ""
    /\ flavor = "k8s"
    /\ version \in (IF csi THEN {7, 10} ELSE {7})
    /\ dryRun = TRUE
    /\ volumeSize \in VolumeSizes
    /\ argNames = DefaultNames
    /\ generateYAML = FALSE
    /\ files = {}
    /\ useYAML = FALSE
    /\ overrides = RenderedManifests
    /\ objs \in {{}, {"namespace"}, {"namespace", "deployment"}}
    /\ namespaceLabel \in (IF "namespace" \in objs THEN Labels ELSE {"none"})
    /\ other = NoRun
    /\ pvc \in InitPVCs
    /\ pv \in ProbePVs
    /\ ("namespace" \notin objs) => pvc = NoPVC
    /\ BindingConsistent(pvc, pv)
    /\ secrets = {}
    /\ pod = "none"
    /\ restUp = FALSE
    /\ pc = "start"
    /\ returnError = "nil"
    /\ prev = "none"
    /\ namespaceExists = FALSE
    /\ pvcExists = FALSE
    /\ pvExists = FALSE
    /\ storageBackend = NilBackend
    /\ volume = NoVolume
    /\ anyErrors = FALSE
    /\ backoff = [elapsed |-> 0, interval |-> 1]
    /\ calls = <<>>
    /\ failures = 0
    /\ chap = [n \in SecretNames |-> NoCHAP]

ProbeNext ==
    \/ ParseQuantity
    \/ CheckInstalled
    \/ CheckNamespaceExists
    \/ CheckPVCExists
    \/ GetPVC
    \/ CheckPVExists
    \/ GetPV
    \/ loadStorageDriver

ProbeSpec == ProbeInit /\ [][ProbeNext]_vars


(***************************************************************************)
(* The manifest files.  A run with or without --use-custom-yaml on a       *)
(* cluster that holds the namespace and an available PV, with any of the   *)
(* validated manifest files of the topology present in the setup           *)
(* directory; one of them has been edited by hand and holds any object,    *)
(* the others are as they were generated.                                  *)
(***************************************************************************)
OverrideLabelSets ==
    {{}, {TridentLabelValue}, {TridentCSILabelValue}, {TridentNodeLabelValue},
     {TridentCSILabelValue, TridentNodeLabelValue}}

ContainerSets ==
    {{}, {[name |-> ContainerTrident, image |-> ""]},
     {[name |-> ContainerTrident, image |-> "trident"]}}

\* the objects a manifest file of the kind may hold
ManifestBodies(kind) ==
    {[RenderedManifest(kind) EXCEPT !.readable = FALSE]} \cup
    [readable : {TRUE},
     labels : OverrideLabelSets,
     podLabels : IF kind \in TemplateKinds THEN OverrideLabelSets ELSE {{}},
     containers : IF kind \in TemplateKinds THEN ContainerSets ELSE {{}},
     name : IF kind = "pvc" THEN {pvcName, OtherName} ELSE {kind},
     namespace : IF kind = "pvc" THEN {TridentPodNamespace, OtherName}
                 ELSE {TridentPodNamespace}]

\* the validated kinds of the topology
TopologyOverrideKinds ==
    IF csi THEN {"pvc", "service", "statefulset", "daemonset"}
    ELSE {"pvc", "deployment"}

OverrideInit ==
    /\ csi \in BOOLEAN
    /\ ucpBearerToken = "" /\ ucpHost = ""
    /\ flavor = "k8s"
    /\ version = KubernetesCSIVersionMin
    /\ dryRun = FALSE
    /\ volumeSize = <<"2", "Gi">>
    /\ argNames = DefaultNames
    /\ generateYAML = FALSE
    /\ files \in SUBSET TopologyOverrideKinds
    /\ useYAML \in BOOLEAN
    /\ overrides \in UNION {{[RenderedManifests EXCEPT ![k] = b] :
                                b \in ManifestBodies(k)} :
                              k \in TopologyOverrideKinds}
    /\ \A k \in OverrideKinds :
          overrides[k] # RenderedManifests[k] => k \in files
    /\ objs = {"namespace"}
    /\ namespaceLabel = "none"
    /\ other = NoRun
    /\ pvc = NoPVC
    /\ pv = [phase |-> "Available", claimRef |-> NilRef,
             label |-> appLabelValue, shape |-> "nfs", secretRef |-> "",
             capacity |-> <<"2", "Gi">>]
    /\ secrets = {}
    /\ pod = "none"
    /\ restUp = FALSE
    /\ pc = "start"
    /\ returnError = "nil"
    /\ prev = "none"
    /\ namespaceExists = FALSE
    /\ pvcExists = FALSE
    /\ pvExists = FALSE
    /\ storageBackend = NilBackend
    /\ volume = NoVolume
    /\ anyErrors = FALSE
    /\ backoff = [elapsed |-> 0, interval |-> 1]
    /\ calls = <<>>
    /\ failures = 0
    /\ chap = [n \in SecretNames |-> NoCHAP]

OverrideNext ==
    \/ ParseQuantity
    \/ CheckInstalled
    \/ CheckNamespaceExists
    \/ CheckPVCExists
    \/ CheckPVExists
    \/ GetPV
    \/ RemoveClusterRoleBinding
    \/ RemoveClusterRole
    \/ RemoveServiceAccount
    \/ CreateServiceAccount
    \/ CreateClusterRole
    \/ CreateClusterRoleBinding
    \/ CreatePVC
    \/ CheckPVCBound
    \/ WaitPVCBound
    \/ CreateDeployment
    \/ CreateService
    \/ CreateStatefulSet
    \/ CreateDaemonSet
    \/ waitForTridentPod
    \/ waitForRESTInterface
    \/ BindPVC
    \/ PodScheduled
    \/ PodRunning
    \/ RESTUp

OverrideSpec == OverrideInit /\ [][OverrideNext]_vars

(***************************************************************************)
(* The RBAC objects.  A run on a cluster that holds the namespace, the     *)
(* bound PVC and PV and any RBAC objects of an earlier attempt, on either  *)
(* flavor, started with any combination of the two UCP flags.              *)
(***************************************************************************)
RBACObjects == {"serviceaccount", "clusterrole", "clusterrolebinding", "scc",
                "ucprole", "ucprolegrant"}

RBACInit ==
    /\ csi = FALSE
    /\ ucpBearerToken \in {"", "token"}
    /\ ucpHost \in {"", "ucp.example"}
    /\ flavor \in Flavors
    /\ version = ChapVersionMin
    /\ dryRun = FALSE
    /\ volumeSize = <<"2", "Gi">>
    /\ argNames = DefaultNames
    /\ generateYAML = FALSE
    /\ files = {}
    /\ useYAML = FALSE
    /\ overrides = RenderedManifests
    /\ \E stale \in SUBSET RBACObjects : objs = {"namespace"} \cup stale
    /\ namespaceLabel = "none"
    /\ other = NoRun
    /\ pvc = [phase |-> "Bound", volumeName |-> pvName,
              label |-> appLabelValue]
    /\ pv = [phase |-> "Bound", claimRef |-> IntendedRef,
             label |-> appLabelValue, shape |-> "nfs", secretRef |-> "",
             capacity |-> <<"2", "Gi">>]
    /\ secrets = {}
    /\ pod = "none"
    /\ restUp = FALSE
    /\ pc = "start"
    /\ returnError = "nil"
    /\ prev = "none"
    /\ namespaceExists = FALSE
    /\ pvcExists = FALSE
    /\ pvExists = FALSE
    /\ storageBackend = NilBackend
    /\ volume = NoVolume
    /\ anyErrors = FALSE
    /\ backoff = [elapsed |-> 0, interval |-> 1]
    /\ calls = <<>>
    /\ failures = 0
    /\ chap = [n \in SecretNames |-> NoCHAP]

RBACNext ==
    \/ ParseQuantity
    \/ CheckInstalled
    \/ CheckNamespaceExists
    \/ CheckPVCExists
    \/ GetPVC
    \/ CheckPVExists
    \/ GetPV
    \/ RemoveClusterRoleBinding
    \/ RemoveClusterRole
    \/ RemoveTridentRoleFromServiceAccount
    \/ DeleteTridentRole
    \/ RemoveServiceAccount
    \/ RemoveTridentUserFromOpenShiftSCC
    \/ CreateServiceAccount
    \/ CreateClusterRole
    \/ CreateClusterRoleBinding
    \/ AddTridentUserToOpenShiftSCC
    \/ CreateTridentRole
    \/ AddTridentRoleToServiceAccount
    \/ CheckPVCBound
    \/ WaitPVCBound
    \/ CreateDeployment
    \/ waitForTridentPod
    \/ waitForRESTInterface
    \/ PodScheduled
    \/ PodRunning
    \/ RESTUp

RBACSpec == RBACInit /\ [][RBACNext]_vars

(***************************************************************************)
(* Vocabulary of the properties.                                           *)
(***************************************************************************)
Issued(op, obj) ==
    \E i \in 1..Len(calls) : calls[i].op = op /\ calls[i].obj = obj

Done(op, obj) ==
    \E i \in 1..Len(calls) :
        calls[i].op = op /\ calls[i].obj = obj /\ calls[i].ok

\* every call of (op1, obj1) or later has a successful (op0, obj0) before it
Precedes(op0, obj0, op1, obj1) ==
    \A j \in 1..Len(calls) :
        (calls[j].op = op1 /\ calls[j].obj = obj1) =>
            \E i \in 1..(j - 1) :
                calls[i].op = op0 /\ calls[i].obj = obj0 /\ calls[i].ok

AllCallsOk == \A i \in 1..Len(calls) : calls[i].ok

ObjsOf(cs) == [i \in 1..Len(cs) |-> cs[i].obj]

TimeoutErrors == {"PVC was not bound", "pod not running",
                  "Trident REST interface was not available"}

\* the run has returned, no call of it failed, no wait of it timed out, the
\* size parses, and the backend it loaded offers a pool and a volume of a
\* recognized type that the cluster version supports
CleanRun ==
    /\ pc = "done"
    /\ AllCallsOk
    /\ returnError \notin TimeoutErrors
    /\ ParseQuantityOk(volumeSize)
    /\ storageBackend.pools # 0
    /\ Done("alloc", "volume") =>
        /\ volume.nfsServerIP # "" \/ volume.iscsiTargetPortal # ""
        /\ (volume.nfsServerIP = "" /\ volume.iscsiTargetSecret # "")
                => version >= 7

(***************************************************************************)
(* C1.  From an empty cluster, single-replica topology, native RBAC, valid *)
(* inputs and every call succeeding, the create calls are issued in the    *)
(* order namespace, service account, cluster role, cluster role binding,   *)
(* PVC, PV, deployment, and the run returns success having observed the    *)
(* pod Running and the version query answered.                             *)
(***************************************************************************)
C1_Kinds == {"namespace", "serviceaccount", "clusterrole",
             "clusterrolebinding", "pvc", "pv", "deployment"}

C1_Scenario ==
    /\ CleanRun
    /\ prev = "none"
    /\ failures = 0
    /\ ~csi /\ useKubernetesRBAC /\ ~dryRun
    /\ ~namespaceExists /\ ~pvcExists /\ ~pvExists

C1_CreateOrder ==
    C1_Scenario =>
        /\ returnError = "nil"
        /\ ObjsOf(SelectSeq(calls, LAMBDA e :
                e.op = "create" /\ e.obj \in C1_Kinds))
            = <<"namespace", "serviceaccount", "clusterrole",
                "clusterrolebinding", "pvc", "pv", "deployment">>
        /\ Done("observe", "podRunning")
        /\ Done("observe", "restVersion")
        /\ Precedes("observe", "podRunning", "observe", "restVersion")

C1_Witness ==
    /\ C1_Scenario
    /\ returnError = "nil"
    /\ Len(calls) > 10

(***************************************************************************)
(* C2.  A run that is not a dry run returns success only if the PVC was    *)
(* observed bound, then the workload objects of the topology were          *)
(* submitted, then the pod was observed Running, then the version query    *)
(* in the pod succeeded, in this order.                                    *)
(***************************************************************************)
C2_SuccessOnlyWhenHealthy ==
    (pc = "done" /\ returnError = "nil" /\ ~dryRun) =>
        /\ Done("observe", "pvcBound")
        /\ IF csi
            THEN /\ Done("create", "service")
                 /\ Done("create", "statefulset")
                 /\ Done("create", "daemonset")
                 /\ Precedes("observe", "pvcBound", "create", "service")
                 /\ Precedes("create", "service", "create", "statefulset")
                 /\ Precedes("create", "statefulset", "create", "daemonset")
                 /\ Precedes("create", "daemonset", "observe", "podRunning")
            ELSE /\ Done("create", "deployment")
                 /\ Precedes("observe", "pvcBound", "create", "deployment")
                 /\ Precedes("create", "deployment", "observe", "podRunning")
        /\ Done("observe", "podRunning")
        /\ Done("observe", "restVersion")
        /\ Precedes("observe", "podRunning", "observe", "restVersion")

C2_Witness ==
    /\ pc = "done" /\ returnError = "nil" /\ ~dryRun /\ csi
    /\ Done("observe", "restVersion")


(***************************************************************************)
(* C3.  When the probe classifies an existing PVC or PV as incompatible    *)
(* (in particular a PVC bound to another volume than the requested PV),    *)
(* the run returns an error and has issued no create, delete, grant,       *)
(* revoke or backend call.                                                 *)
(***************************************************************************)
\* the claim's classification of an existing claim and volume
C3_PVCIncompatible ==
    /\ pvc.phase # "Absent"
    /\ \/ pvc.phase = "Lost"
       \/ pvc.phase = "Bound" /\ pvc.volumeName # pvName
       \/ pvc.label # appLabelValue

C3_PVIncompatible ==
    /\ pv.phase # "Absent"
    /\ \/ pv.phase \in {"Released", "Failed"}
       \/ /\ pv.phase = "Bound" /\ pv.claimRef # NilRef
          /\ pv.claimRef # IntendedRef
       \/ pv.label # appLabelValue

C3_Probed ==
    \/ Done("get", "pvc") /\ C3_PVCIncompatible
    \/ Done("get", "pv") /\ C3_PVIncompatible

C3_IncompatibleAbortsUntouched ==
    C3_Probed =>
        /\ ~Mutated(calls)
        /\ ~Issued("load", "backend")
        /\ pc = "done"
        /\ returnError # "nil"

C3_Witness ==
    /\ pc = "done"
    /\ Done("get", "pvc")
    /\ pvc.phase = "Bound" /\ pvc.volumeName = OtherName
    /\ pvc.label = appLabelValue
    /\ returnError = "PVC is Bound, but not to PV"


(***************************************************************************)
(* C4.  In every run that reaches the mutation phase all RBAC teardown     *)
(* steps of the active mode are issued before the first RBAC create call,  *)
(* and no stale RBAC object of a prior attempt exists when                 *)
(* createRBACObjects starts.                                               *)
(***************************************************************************)
RBACKinds == {"serviceaccount", "clusterrole", "clusterrolebinding", "scc",
              "ucprole", "ucprolegrant"}

TeardownOps == {"delete", "revoke", "detach"}
SetupOps == {"create", "grant", "attach"}

\* the teardown steps removeRBACObjects owes in the active mode
TeardownSteps ==
    IF useKubernetesRBAC
        THEN {<<"delete", "clusterrolebinding">>, <<"delete", "clusterrole">>,
              <<"delete", "serviceaccount">>}
             \cup (IF flavor = "openshift" THEN {<<"revoke", "scc">>} ELSE {})
        ELSE {<<"detach", "ucprolegrant">>, <<"delete", "ucprole">>,
              <<"delete", "serviceaccount">>}

\* every RBAC create call has every teardown step of the mode before it
C4_TeardownIssuedFirst ==
    \A j \in 1..Len(calls) :
        (calls[j].op \in SetupOps /\ calls[j].obj \in RBACKinds) =>
            \A t \in TeardownSteps :
                \E i \in 1..(j - 1) :
                    calls[i].op = t[1] /\ calls[i].obj = t[2]

C4_NoStaleAtCreate ==
    pc = "mkServiceAccount" => objs \cap RBACKinds = {}

C4_TeardownBeforeCreate ==
    C4_TeardownIssuedFirst /\ C4_NoStaleAtCreate

\* what does hold: the order in both modes, no stale object in native mode
C4_NativeOnly ==
    /\ C4_TeardownIssuedFirst
    /\ useKubernetesRBAC => C4_NoStaleAtCreate

(***************************************************************************)
(* C5.  If any RBAC teardown step fails, in either RBAC mode, the run      *)
(* aborts with the "could not remove previous artifacts" error and issues  *)
(* no RBAC, PVC, PV or workload create call afterwards.                    *)
(***************************************************************************)
C5_TeardownFailureAborts ==
    \A i \in 1..Len(calls) :
        (calls[i].op \in TeardownOps /\ ~calls[i].ok) =>
            /\ \A j \in (i + 1)..Len(calls) :
                    calls[j].op \notin (SetupOps \cup {"alloc"})
            /\ pc = "done" => returnError =
                "could not remove one or more previous Trident artifacts"

\* what does hold: the same for the steps of native mode and the service
\* account
C5_NativeOnly ==
    \A i \in 1..Len(calls) :
        (/\ calls[i].op \in TeardownOps /\ ~calls[i].ok
         /\ calls[i].obj \notin {"ucprole", "ucprolegrant"}) =>
            /\ \A j \in (i + 1)..Len(calls) :
                    calls[j].op \notin (SetupOps \cup {"alloc"})
            /\ pc = "done" => returnError =
                "could not remove one or more previous Trident artifacts"


(***************************************************************************)
(* C6.  Idempotency: a second run against a cluster in which a first run   *)
(* of the same topology fully succeeded detects every object as            *)
(* present-compatible, performs no creation call and ends successfully.    *)
(***************************************************************************)
\* the previous run was an installation that returned success
AfterSuccess == prev = "nil" /\ ~dryRun

C6_SecondRunSucceeds ==
    (AfterSuccess /\ pc = "done" /\ AllCallsOk) =>
        /\ ~Mutated(calls)
        /\ returnError = "nil"

\* as amended: the second run stops at the prior-installation guard
C6_SecondRunStopsAtGuard ==
    (AfterSuccess /\ pc = "done" /\ AllCallsOk) =>
        /\ ~Mutated(calls)
        /\ Len(calls) = 1
        /\ calls[1].op = "check" /\ calls[1].obj = "installed"
        /\ returnError = "Trident is already installed"

C6_Witness ==
    /\ AfterSuccess /\ pc = "done" /\ AllCallsOk
    /\ returnError = "Trident is already installed"
    /\ pod = "Running" /\ restUp

(***************************************************************************)
(* C7.  Install is safe to re-run after a partially completed attempt:     *)
(* for every point at which an earlier run can fail after mutation began,  *)
(* a following run in which every call succeeds tolerates the left-over    *)
(* objects and installs successfully, without an uninstall.                *)
(***************************************************************************)
\* the previous run failed after it had changed something
AfterPartialRun == prev \notin {"none", "nil", "failed before any change"}

\* errors of a run that fails after its workload object has been created
AfterWorkloadErrors ==
    {"pod not running",
     "Trident REST interface was not available",
     "could not create Trident daemonset"}

C7_RerunSucceeds ==
    (AfterPartialRun /\ CleanRun /\ ~dryRun) => returnError = "nil"

\* as amended: the re-run succeeds unless the earlier run got as far as
\* creating the workload object, and then it stops at the guard
C7_RerunSucceedsBeforeWorkload ==
    (AfterPartialRun /\ CleanRun /\ ~dryRun) =>
        IF prev \in AfterWorkloadErrors
            THEN /\ returnError = "Trident is already installed"
                 /\ ~Mutated(calls)
            ELSE /\ returnError = "nil"
                 /\ Done("observe", "restVersion")

C7_Witness ==
    /\ AfterPartialRun /\ CleanRun /\ ~dryRun
    /\ prev = "could not create PV"
    /\ returnError = "nil"
    /\ ~Issued("create", "pvc")
    /\ Done("create", "pv")

C7_WitnessGuard ==
    /\ AfterPartialRun /\ CleanRun /\ ~dryRun
    /\ prev = "pod not running"
    /\ returnError = "Trident is already installed"

(***************************************************************************)
(* C8.  A dry run issues no create, delete, grant or revoke call and       *)
(* allocates no backend volume, whatever the cluster holds; it returns     *)
(* success exactly when all pre-flight checks pass.                        *)
(***************************************************************************)
\* the pre-flight checks, read off the cluster and the answers received
C8_ChecksPass ==
    /\ ParseQuantityOk(volumeSize)
    /\ AllCallsOk
    /\ csi => version >= KubernetesCSIVersionMin
    /\ (IF csi THEN "statefulset" ELSE "deployment") \notin objs
    /\ ~C3_PVCIncompatible
    /\ ~C3_PVIncompatible
    /\ pv.phase = "Absent" => Done("load", "backend")

C8_DryRunChangesNothing ==
    dryRun =>
        /\ ~Mutated(calls)
        /\ pc \in {"start", "checkInstalled", "checkNamespace", "checkPVC",
                   "getPVC", "checkPV", "getPV", "loadStorageDriver", "done"}
        /\ pc = "done" => (returnError = "nil" <=> C8_ChecksPass)

C8_Witness ==
    /\ dryRun /\ pc = "done" /\ returnError = "nil"
    /\ Done("load", "backend")
    /\ Done("get", "pvc")


(***************************************************************************)
(* C9.  createPV selects the PV manifest from the access information as a  *)
(* total function: NFS server populated gives the NFS manifest; otherwise  *)
(* an iSCSI portal with an empty target secret gives the plain iSCSI       *)
(* manifest; an iSCSI portal with a target secret gives the CHAP manifest  *)
(* referencing the derived secret name; neither gives the "unrecognized    *)
(* volume type" error and no PV create call.                               *)
(***************************************************************************)
\* the manifests submitted as PV by the run (shape and referenced secret)
PVManifests ==
    LET cs == SelectSeq(calls, LAMBDA e : e.op = "create" /\ e.obj = "pv")
    IN [i \in 1..Len(cs) |-> cs[i].arg]

\* createPV has allocated a volume and returned, and no call of the run
\* failed
C9_CreatePVReturned ==
    /\ Done("alloc", "volume")
    /\ pc \notin {"checkSecret", "createSecret", "createPVObject"}
    /\ AllCallsOk

C9_DerivedName == "trident-chap-" \o volume.iscsiUsername

C9_ShapeIsTotal ==
    C9_CreatePVReturned =>
        IF volume.nfsServerIP # "" THEN PVManifests = <<"nfs">>
        ELSE IF volume.iscsiTargetPortal # "" /\ volume.iscsiTargetSecret = ""
            THEN PVManifests = <<"iscsi">>
        ELSE IF volume.iscsiTargetPortal # ""
            THEN PVManifests = <<"chap" \o C9_DerivedName>>
        ELSE /\ PVManifests = <<>>
             /\ pc = "done" /\ returnError = "unrecognized volume type"

\* as amended: the CHAP manifest is produced only on Kubernetes 1.7.0 or
\* later; below it createPV fails and submits neither secret nor PV
C9_ShapeWithVersionFloor ==
    C9_CreatePVReturned =>
        IF volume.nfsServerIP # "" THEN PVManifests = <<"nfs">>
        ELSE IF volume.iscsiTargetPortal # "" /\ volume.iscsiTargetSecret = ""
            THEN PVManifests = <<"iscsi">>
        ELSE IF volume.iscsiTargetPortal # "" /\ version >= 7
            THEN /\ PVManifests = <<"chap" \o C9_DerivedName>>
                 /\ C9_DerivedName \in secrets
        ELSE IF volume.iscsiTargetPortal # ""
            THEN /\ PVManifests = <<>>
                 /\ ~Issued("check", "secret") /\ ~Issued("create", "secret")
                 /\ pc = "done"
                 /\ returnError = "iSCSI CHAP requires Kubernetes 1.7.0"
        ELSE /\ PVManifests = <<>>
             /\ pc = "done" /\ returnError = "unrecognized volume type"

C9_Witness ==
    /\ C9_CreatePVReturned
    /\ volume.nfsServerIP = "" /\ volume.iscsiTargetSecret # ""
    /\ version < 7
    /\ returnError = "iSCSI CHAP requires Kubernetes 1.7.0"

(***************************************************************************)
(* C10.  The CHAP secret is created idempotently: over any number of       *)
(* createCHAPSecret calls deriving the same secret name exactly one secret *)
(* create call is issued (none if the secret existed before the first      *)
(* call), and the PV manifest references that same name.                   *)
(***************************************************************************)
\* createCHAPSecret is between its check and its create for this name
C10_InCall(n) ==
    pc = "createSecret" /\ "trident-chap-" \o volume.iscsiUsername = n

C10_SecretCreatedOnce ==
    /\ \A n \in SecretNames :
        /\ chap[n].created <= 1
        /\ chap[n].existed => chap[n].created = 0
        /\ (chap[n].calls >= 1 /\ ~chap[n].failed /\ ~C10_InCall(n)) =>
                /\ chap[n].creates = (IF chap[n].existed THEN 0 ELSE 1)
                /\ n \in secrets
    /\ \A i \in 1..Len(PVManifests) :
        (volume.nfsServerIP = "" /\ volume.iscsiTargetSecret # "") =>
            /\ PVManifests[i] = "chap" \o "trident-chap-" \o volume.iscsiUsername
            /\ ("trident-chap-" \o volume.iscsiUsername) \in secrets

C10_Witness ==
    \E n \in SecretNames :
        /\ chap[n].calls >= 2
        /\ ~chap[n].failed /\ ~chap[n].existed
        /\ chap[n].creates = 1
        /\ ~C10_InCall(n)

(***************************************************************************)
(* C11.  When the backend hands out an iSCSI volume with a target secret   *)
(* and the cluster is older than the CHAP floor (1.7.0), the run ends in   *)
(* createPV with the minimum-version error, and it has submitted no CHAP   *)
(* secret, no PV and no workload object.                                   *)
(***************************************************************************)
C11_WorkloadKinds == {"deployment", "service", "statefulset", "daemonset"}

\* createPV has allocated a CHAP volume on a cluster below the floor
C11_ChapBelowFloor ==
    /\ Done("alloc", "volume")
    /\ volume.nfsServerIP = ""
    /\ volume.iscsiTargetPortal # ""
    /\ volume.iscsiTargetSecret # ""
    /\ version < ChapVersionMin

C11_ChapBelowFloorAborts ==
    C11_ChapBelowFloor =>
        /\ pc = "done"
        /\ returnError = "iSCSI CHAP requires Kubernetes 1.7.0"
        /\ ~Issued("check", "secret")
        /\ \A i \in 1..Len(calls) :
              calls[i].op = "create" =>
                  calls[i].obj \notin ({"secret", "pv"} \cup C11_WorkloadKinds)

C11_Witness ==
    /\ C11_ChapBelowFloor
    /\ pc = "done"
    /\ Done("create", "pvc")
    /\ pv = NoPV

(***************************************************************************)
(* C12.  When the PVC exists and passes the compatibility checks, the run  *)
(* issues no PVC create call, and all its other steps (namespace, RBAC     *)
(* teardown and create, PV creation when the PV is absent, bound wait,     *)
(* workload submission, readiness waits) are those of a run that found no  *)
(* PVC: the steps that do not concern the PVC are a function of the        *)
(* topology, the RBAC mode, the namespace probe and the PV probe alone.    *)
(***************************************************************************)
C12_Step(e) == e.op \o " " \o e.obj

\* the steps of the run that concern the PVC object, and all the others
\* (the secret is created or not by what the cluster holds, see C10)
C12_PVCSteps ==
    LET cs == SelectSeq(calls, LAMBDA e : e.obj = "pvc")
    IN [i \in 1..Len(cs) |-> C12_Step(cs[i])]

C12_OtherSteps ==
    LET cs == SelectSeq(calls, LAMBDA e :
                  e.obj # "pvc" /\ ~(e.op = "create" /\ e.obj = "secret"))
    IN [i \in 1..Len(cs) |-> C12_Step(cs[i])]

\* the steps of a successful run, written without reference to the PVC
C12_ExpectedSteps ==
    <<"check installed", "check namespace", "check pv">>
    \o (IF pvExists THEN <<"get pv">> ELSE <<"load backend">>)
    \o (IF namespaceExists THEN <<>> ELSE <<"create namespace">>)
    \o (IF useKubernetesRBAC
            THEN <<"delete clusterrolebinding", "delete clusterrole",
                   "delete serviceaccount">>
                 \o (IF flavor = "openshift" THEN <<"revoke scc">> ELSE <<>>)
            ELSE <<"detach ucprolegrant", "delete ucprole",
                   "delete serviceaccount">>)
    \o <<"create serviceaccount">>
    \o (IF useKubernetesRBAC
            THEN <<"create clusterrole", "create clusterrolebinding">>
                 \o (IF flavor = "openshift" THEN <<"grant scc">> ELSE <<>>)
            ELSE <<"create ucprole", "attach ucprolegrant">>)
    \o (IF pvExists THEN <<>>
        ELSE <<"alloc volume">>
             \o (IF volume.nfsServerIP = "" /\ volume.iscsiTargetSecret # ""
                    THEN <<"check secret">> ELSE <<>>)
             \o <<"create pv">>)
    \o <<"observe pvcBound">>
    \o (IF csi THEN <<"create service", "create statefulset",
                      "create daemonset">>
        ELSE <<"create deployment">>)
    \o <<"observe podRunning", "observe restVersion">>

C12_ExistingPVCOnlySkipsCreate ==
    (pc = "done" /\ returnError = "nil" /\ ~dryRun) =>
        /\ C12_OtherSteps = C12_ExpectedSteps
        /\ C12_PVCSteps = (IF pvcExists THEN <<"check pvc", "get pvc">>
                           ELSE <<"check pvc", "create pvc">>)

C12_Witness ==
    /\ pc = "done" /\ returnError = "nil" /\ ~dryRun
    /\ prev = "none"
    /\ pvcExists /\ ~pvExists
    /\ ~Issued("create", "pvc")
    /\ Done("create", "pv")
    /\ Done("observe", "restVersion")

(***************************************************************************)
(* C13.  In each of the three readiness waits (PVC bound, pod running,     *)
(* REST version query) a predicate that never succeeds makes the wait      *)
(* return its timeout error no earlier than the maximum elapsed time       *)
(* k8sTimeout and no later than k8sTimeout plus one back-off increment.    *)
(***************************************************************************)
C13_WaitSteps == {"waitPVCBound", "waitPod", "waitREST"}

\* the increment the wait slept last (the interval grows after each sleep)
C13_LastIncrement == backoff.interval \div 2

C13_TimedOut == pc = "done" /\ returnError \in TimeoutErrors

C14_Label(s) ==
    /\ s # <<>>
    /\ \A i \in 1..Len(s) : s[i] \in {"a", "-"}
    /\ s[1] # "-" /\ s[Len(s)] # "-"

C14_Subdomain(s) ==
    /\ s # <<>>
    /\ \A i \in 1..Len(s) : s[i] \in {"a", "-", "."}
    /\ s[1] = "a" /\ s[Len(s)] = "a"
    /\ \A i \in 2..(Len(s) - 1) :
          s[i] = "." => (s[i - 1] = "a" /\ s[i + 1] = "a")

C14_NamesValid ==
    /\ C14_Label(argNames.namespace)
    /\ C14_Subdomain(argNames.pvc)
    /\ C14_Subdomain(argNames.pv)

\* the validation is over: the run was refused, or it has gone on to its
\* first probe
C14_Validated ==
    /\ pc \in {"checkInstalled", "done"}
    /\ returnError # "could not initialize Kubernetes client"

C14_AcceptsIffValid ==
    C14_Validated =>
        /\ pc = "checkInstalled" <=>
              (C14_NamesValid /\ ParseQuantitySign(volumeSize) = "positive")
        /\ calls = <<>>

\* what the validator does: any size that parses is accepted, whatever
\* its sign
C14_AcceptsIffParses ==
    C14_Validated =>
        /\ pc = "checkInstalled" <=>
              (C14_NamesValid /\ ParseQuantitySign(volumeSize) # "error")
        /\ calls = <<>>

C14_AcceptedNegative ==
    /\ pc = "checkInstalled"
    /\ argNames.pvc = <<"a", ".", "a">>
    /\ volumeSize = <<"-", "2", "Gi">>

(***************************************************************************)
(* C15.  Every configuration error (invalid name, invalid size, missing    *)
(* setup directory or backend config file, backend that fails to load,     *)
(* backend with zero storage pools) aborts the run before the first        *)
(* mutating call: no run that ends with a configuration error has created  *)
(* or deleted a cluster object.                                            *)
(***************************************************************************)
C15_ConfigErrors ==
    {"not a valid namespace name", "not a valid PVC name",
     "not a valid PV name", "volume-size is invalid",
     "backend has no storage pools"} \cup LoadErrors

C15_ConfigErrorsBeforeMutation ==
    (pc = "done" /\ returnError \in C15_ConfigErrors) => ~Mutated(calls)

\* all configuration errors but the empty backend are caught before the
\* first mutating call
C15_AllButEmptyBackend ==
    (pc = "done" /\ returnError \in C15_ConfigErrors
        /\ returnError # "backend has no storage pools") => ~Mutated(calls)

C15_EmptyBackendAfterMutation ==
    /\ pc = "done"
    /\ returnError = "backend has no storage pools"
    /\ prev = "none"
    /\ Done("create", "namespace")
    /\ Done("create", "serviceaccount")
    /\ Done("create", "pvc")

(***************************************************************************)
(* C16.  There is no rollback: a run issues no delete or revoke call for   *)
(* an object it created earlier in that run, so whatever step fails after  *)
(* mutation began, every object the run created still exists when it       *)
(* returns; a timeout of a later readiness wait does not undo the objects  *)
(* whose earlier waits succeeded.                                          *)
(***************************************************************************)
C16_MakingOps == {"create", "grant", "attach"}
C16_UndoingOps == {"delete", "revoke", "detach"}

\* the object of a successful create call is in the cluster
C16_StillExists(e) ==
    CASE e.obj = "pvc" -> pvc # NoPVC
      [] e.obj = "pv" -> pv # NoPV
      [] e.obj = "secret" -> e.arg \in secrets
      [] OTHER -> e.obj \in objs

C16_NoRollback ==
    \A j \in 1..Len(calls) :
        LET e == calls[j]
        IN  /\ (e.ok /\ e.op \in C16_MakingOps) => C16_StillExists(e)
            /\ e.op \in C16_UndoingOps =>
                  \A i \in 1..(j - 1) :
                      ~(calls[i].ok /\ calls[i].op \in C16_MakingOps
                            /\ calls[i].obj = e.obj)

C16_Witness ==
    /\ pc = "done"
    /\ returnError = "Trident REST interface was not available"
    /\ Done("create", "namespace")
    /\ Done("create", "pv")
    /\ Done("observe", "pvcBound")
    /\ Done("observe", "podRunning")
    /\ pvc.phase = "Bound" /\ pod = "Running"
    /\ {"namespace", "serviceaccount", "deployment"} \subseteq objs

(***************************************************************************)
(* C17.  With --generate-custom-yaml the run never enters installTrident,  *)
(* dry run or not, and issues no call against the cluster; when it has     *)
(* finished, each of the nine manifest files exists if and only if its     *)
(* kind belongs to the topology (single-replica: namespace, service        *)
(* account, cluster role, cluster role binding, PVC, deployment;           *)
(* distributed: the first five, service, stateful-set, daemon-set),        *)
(* whichever of the nine existed before.                                   *)
(***************************************************************************)
C17_Common == {"namespace", "serviceaccount", "clusterrole",
               "clusterrolebinding", "pvc"}

C17_TopologyKinds ==
    C17_Common \cup (IF csi THEN {"service", "statefulset", "daemonset"}
                     ELSE {"deployment"})

\* the run has finished and none of its file operations failed
C17_Finished == pc = "done" /\ returnError = "nil" /\ AllCallsOk

C18_PVCErrors == {"PVC phase is Lost", "PVC is Bound, but not to PV",
                  "PVC does not have label"}

C18_Rejectable ==
    \/ pvc.phase = "Lost"
    \/ pvc.phase = "Bound" /\ pvc.volumeName # "trident"
    \/ pvc.label = "none"
    \/ pvc.label # (IF csi THEN "controller.csi.trident.netapp.io"
                    ELSE "trident.netapp.io")

C18_PVCRejectedExactlyWhenIncompatible ==
    Done("get", "pvc") =>
        /\ (pc = "done" /\ returnError \in C18_PVCErrors) <=> C18_Rejectable
        /\ ~C18_Rejectable => (pc = "checkPV" \/ Issued("check", "pv"))
        /\ C18_Rejectable => ~Issued("check", "pv")

C18_Witness ==
    /\ Done("get", "pvc")
    /\ pvc.phase = "Pending"
    /\ pvc.label = "trident.netapp.io" /\ ~csi
    /\ Done("check", "pv")
    /\ pc = "done" /\ returnError = "nil"

(***************************************************************************)
(* C19.  An existing PV in Released or Failed phase is rejected, and an    *)
(* existing PV in Bound phase is accepted only if it references the        *)
(* intended PVC name and the installation namespace: no run proceeds past  *)
(* the probe with a Bound PV whose claim reference is missing or names     *)
(* another claim or namespace.                                             *)
(***************************************************************************)
C19_PVErrors == {"PV phase is Released", "PV phase is Failed",
                 "PV is Bound, but not to PVC",
                 "PV is Bound to a PVC in another namespace",
                 "PV does not have label"}

\* the run has fetched the PV and has not rejected it
C19_Accepted == Done("get", "pv") /\ returnError \notin C19_PVErrors

C19_BoundPVReferencesClaim ==
    C19_Accepted =>
        /\ pv.phase \notin {"Released", "Failed"}
        /\ pv.phase = "Bound" =>
              /\ pv.claimRef # NilRef
              /\ pv.claimRef.name = "trident"
              /\ pv.claimRef.namespace = "trident"

\* what the probe ensures: a claim reference, if there is one, is the
\* intended one
C19_BoundPVReferencesClaimIfAny ==
    C19_Accepted =>
        /\ pv.phase \notin {"Released", "Failed"}
        /\ (pv.phase = "Bound" /\ pv.claimRef # NilRef) =>
              /\ pv.claimRef.name = "trident"
              /\ pv.claimRef.namespace = "trident"

C19_ProceedsWithoutReference ==
    /\ Done("get", "pv")
    /\ pv.phase = "Bound" /\ pv.claimRef = NilRef
    /\ ~dryRun
    /\ Done("create", "serviceaccount")

(***************************************************************************)
(* C20.  The capacity of an existing PV never makes the probe fail: the    *)
(* PV is accepted or rejected by its phase, claim reference and label      *)
(* alone, the same for every capacity, and a capacity that differs from    *)
(* the requested size or cannot be determined only produces a warning.     *)
(***************************************************************************)
\* the verdict on the PV, written without its capacity
C20_RejectedWhateverTheCapacity ==
    \/ pv.phase \in {"Released", "Failed"}
    \/ /\ pv.phase = "Bound" /\ pv.claimRef # NilRef
       /\ pv.claimRef # [name |-> "trident", namespace |-> "trident"]
    \/ pv.label # (IF csi THEN "controller.csi.trident.netapp.io"
                   ELSE "trident.netapp.io")

\* the capacity is the requested 2Gi, however it is spelled
C20_SameSize == pv.capacity \in {<<"2", "Gi">>, <<"0", "2", "Gi">>}

C20_Warned == Issued("warn", "pv")

C20_CapacityOnlyWarns ==
    Done("get", "pv") =>
        /\ (pc = "done" /\ returnError \in C19_PVErrors)
                <=> C20_RejectedWhateverTheCapacity
        /\ C20_Warned <=> (~C20_RejectedWhateverTheCapacity /\ ~C20_SameSize)
        /\ (C20_Warned /\ pc = "done") =>
              returnError \in ({"nil"} \cup LoadErrors)

C20_Witness ==
    /\ Done("get", "pv")
    /\ pv.capacity = <<"2">>
    /\ pv.phase = "Available"
    /\ C20_Warned
    /\ pc = "done" /\ returnError = "nil"

(***************************************************************************)
(* C21.  Every target object that exists when the run starts (namespace,   *)
(* PVC, PV) makes the run abort as incompatible unless it carries the      *)
(* identity label of the topology with the exact expected value: no run    *)
(* reuses a namespace, PVC or PV that lacks the label.                     *)
(***************************************************************************)
C21_ProbeErrors == C18_PVCErrors \cup C19_PVErrors

\* the run has been refused by a probe and has changed nothing
C21_Aborted ==
    /\ pc = "done"
    /\ returnError \in C21_ProbeErrors
    /\ ~Mutated(calls)

\* the probes of the run have found the object, without the label
C21_UnlabelledNamespace ==
    /\ Done("check", "namespace")
    /\ namespaceExists
    /\ namespaceLabel # appLabelValue
    /\ pc # "checkPVC"

C21_UnlabelledPVC == pvc.label # appLabelValue /\ Done("get", "pvc")

C21_UnlabelledPV == pv.label # appLabelValue /\ Done("get", "pv")

C21_UnlabelledObjectAborts ==
    (C21_UnlabelledNamespace \/ C21_UnlabelledPVC \/ C21_UnlabelledPV)
        => C21_Aborted

\* as amended: the label is required of the PVC and of the PV
C21_UnlabelledVolumeAborts ==
    (C21_UnlabelledPVC \/ C21_UnlabelledPV) => C21_Aborted

C21_Witness ==
    /\ ~csi
    /\ Done("get", "pv")
    /\ pv.phase = "Available"
    /\ pv.label = "controller.csi.trident.netapp.io"
    /\ Done("get", "pvc") /\ pvc.label = "trident.netapp.io"
    /\ pc = "done"
    /\ returnError = "PV does not have label"

\* a namespace without the label is used by a run that succeeds
C21_NamespaceReused ==
    /\ prev = "none"
    /\ namespaceExists /\ namespaceLabel = "none"
    /\ ~Issued("create", "namespace")
    /\ Done("create", "serviceaccount")
    /\ pc = "done" /\ returnError = "nil"

(***************************************************************************)
(* C22.  When an existence or fetch query fails (the prior-installation    *)
(* check, the namespace check, the PVC check or get, the PV check or get), *)
(* installTrident returns the error of that query and issues no mutating   *)
(* call: the failed query is the last call of the run, so it is never      *)
(* taken for "absent" and never followed by a create call.                 *)
(***************************************************************************)
\* the error returned for each query that fails
C22_QueryError(e) ==
    CASE e.op = "check" /\ e.obj = "installed" ->
            "could not check if Trident exists"
      [] e.op = "check" /\ e.obj = "namespace" ->
            "could not check if namespace exists"
      [] e.op = "check" /\ e.obj = "pvc" ->
            "could not establish the presence of PVC"
      [] e.op = "get" /\ e.obj = "pvc" -> "could not retrieve PVC"
      [] e.op = "check" /\ e.obj = "pv" ->
            "could not establish the presence of PV"
      [] e.op = "get" /\ e.obj = "pv" -> "could not retrieve PV"
      [] OTHER -> "nil"

C22_FailedQuery(e) == ~e.ok /\ C22_QueryError(e) # "nil"

C22_QueryFailureIsFatal ==
    \A i \in 1..Len(calls) :
        C22_FailedQuery(calls[i]) =>
            /\ i = Len(calls)
            /\ pc = "done"
            /\ returnError = C22_QueryError(calls[i])
            /\ ~Mutated(calls)
            /\ ~Issued("load", "backend")

C22_Witness ==
    /\ ~dryRun
    /\ pv = NoPV
    /\ Done("get", "pvc")
    /\ C22_FailedQuery(calls[Len(calls)])
    /\ calls[Len(calls)].obj = "pv"
    /\ pc = "done"
    /\ returnError = "could not establish the presence of PV"

(***************************************************************************)
(* C23.  The storage backend is loaded in every run that passes the        *)
(* existence probes, dry runs included, and a load that fails is reported  *)
(* before any cluster object is touched: no run reports success, and no    *)
(* run starts to change the cluster, without having loaded the backend.    *)
(***************************************************************************)
\* a successful load precedes every mutating call
C23_LoadedBeforeMutation ==
    LET loads == {i \in 1..Len(calls) : calls[i].op = "load" /\ calls[i].ok}
    IN  \A j \in 1..Len(calls) :
            calls[j].op \in MutatingOps => \E i \in loads : i < j

\* a load that fails ends the run with its error, nothing touched
C23_LoadFailureIsFatal ==
    \A i \in 1..Len(calls) :
        (calls[i].op = "load" /\ ~calls[i].ok) =>
            /\ i = Len(calls)
            /\ pc = "done"
            /\ returnError = calls[i].arg
            /\ returnError \in LoadErrors
            /\ ~Mutated(calls)

C23_LoadAlwaysAttempted ==
    /\ (pc = "done" /\ returnError = "nil") => Done("load", "backend")
    /\ C23_LoadedBeforeMutation
    /\ C23_LoadFailureIsFatal

\* as amended: the backend is loaded unless the probe found the PV
C23_LoadAttemptedUnlessPVExists ==
    /\ (pc = "done" /\ returnError = "nil") =>
            (pvExists <=> ~Issued("load", "backend"))
    /\ ~pvExists => C23_LoadedBeforeMutation
    /\ pvExists => ~Issued("load", "backend")
    /\ C23_LoadFailureIsFatal

C23_Witness ==
    /\ dryRun
    /\ Done("get", "pvc")
    /\ Done("check", "pv") /\ ~pvExists
    /\ Issued("load", "backend")
    /\ pc = "done"
    /\ returnError = "storage backend config file does not exist"

\* a dry run on a cluster that holds the PV reports no problem, the backend
\* configuration never looked at
C23_DryRunWithoutLoad ==
    /\ dryRun
    /\ pvExists
    /\ ~Issued("load", "backend")
    /\ pc = "done" /\ returnError = "nil"

(***************************************************************************)
(* C24.  Outside the three readiness predicates every collaborator call    *)
(* that fails is fatal and is issued at most once: the run ends with an    *)
(* error, the call is not repeated and no create call follows it; a        *)
(* create call that fails is the last call of the run.  Inside the three   *)
(* predicates an error of the cluster call counts as "not ready yet": the  *)
(* wait goes on and gives up only when the time budget has expired.        *)
(***************************************************************************)
C24_CreateOps == SetupOps \cup {"alloc"}

\* the failed call i is fatal
C24_Fatal(i) ==
    /\ \A j \in (i + 1)..Len(calls) : calls[j].op \notin C24_CreateOps
    /\ \A j \in 1..Len(calls) :
          (calls[j].op = calls[i].op /\ calls[j].obj = calls[i].obj) => j = i
    /\ pc = "done" => returnError # "nil"
    /\ calls[i].op \in C24_CreateOps =>
          (i = Len(calls) /\ pc = "done" /\ returnError # "nil")

\* a wait gives up only once its budget has expired
C24_WaitsRetry ==
    (pc = "done" /\ returnError \in TimeoutErrors) =>
        backoff.elapsed > k8sTimeout

C24_FailedCallIsFatal ==
    /\ \A i \in 1..Len(calls) : ~calls[i].ok => C24_Fatal(i)
    /\ C24_WaitsRetry

\* what does hold: the same for every call but the two UCP teardown calls
C24_FatalButUCPTeardown ==
    /\ \A i \in 1..Len(calls) :
          (~calls[i].ok /\ calls[i].obj \notin {"ucprole", "ucprolegrant"})
              => C24_Fatal(i)
    /\ \A i \in 1..Len(calls) :
          (~calls[i].ok /\ calls[i].op \in C24_CreateOps) => C24_Fatal(i)
    /\ C24_WaitsRetry

\* a UCP teardown call has failed and the run has gone on to success
C24_UCPTeardownFailureIgnored ==
    /\ \E i \in 1..Len(calls) :
          ~calls[i].ok /\ calls[i].op = "detach" /\ calls[i].obj = "ucprolegrant"
    /\ pc = "done" /\ returnError = "nil"
    /\ Done("create", "ucprole")

\* an error inside a readiness predicate is retried: the only failure of
\* the behaviour is in no logged call, and the run has succeeded
C24_PredicateErrorRetried ==
    /\ prev = "none" /\ failures = 1 /\ AllCallsOk
    /\ pc = "done" /\ returnError = "nil"
    /\ Done("observe", "restVersion")

(***************************************************************************)
(* C25.  With --use-custom-yaml, a manifest file that exists for the PVC,  *)
(* the deployment, the service, the stateful-set or the daemon-set is      *)
(* validated before it is submitted, and a file that is not valid aborts   *)
(* the run: the file is not submitted, no rendered manifest is submitted   *)
(* in its place and no later workload object is submitted.  Without the    *)
(* flag, or without the file, the rendered manifest is submitted and the   *)
(* file is not read.                                                       *)
(***************************************************************************)
\* what the validation of the manifest file of a kind answers
C25_Verdict(kind) ==
    CASE kind = "pvc" -> validateTridentPVC(overrides[kind])
      [] kind = "deployment" -> validateTridentDeployment(overrides[kind])
      [] kind = "service" -> validateTridentService(overrides[kind])
      [] kind = "statefulset" -> validateTridentStatefulSet(overrides[kind])
      [] kind = "daemonset" -> validateTridentDaemonSet(overrides[kind])

C25_FixError(kind) ==
    CASE kind = "pvc" -> "please correct the PVC YAML file"
      [] kind = "deployment" -> "please correct the deployment YAML file"
      [] kind = "service" -> "please correct the service YAML file"
      [] kind = "statefulset" -> "please correct the statefulset YAML file"
      [] kind = "daemonset" -> "please correct the daemonset YAML file"

\* the objects submitted after the one of the kind
C25_Later(kind) ==
    CASE kind = "pvc" -> {"deployment", "service", "statefulset", "daemonset"}
      [] kind = "service" -> {"statefulset", "daemonset"}
      [] kind = "statefulset" -> {"daemonset"}
      [] OTHER -> {}

C25_InUse(kind) == useYAML /\ kind \in files

\* every create call submits the file right after its validation, or the
\* rendered manifest with no validation at all
C25_SubmittedAsChosen ==
    \A i \in 1..Len(calls) :
        (calls[i].op = "create" /\ calls[i].obj \in OverrideKinds) =>
            IF C25_InUse(calls[i].obj)
                THEN /\ calls[i].arg = "file"
                     /\ C25_Verdict(calls[i].obj) = "nil"
                     /\ i > 1
                     /\ calls[i - 1].op = "validate"
                     /\ calls[i - 1].obj = calls[i].obj
                     /\ calls[i - 1].ok
                ELSE /\ calls[i].arg = ""
                     /\ ~Issued("validate", calls[i].obj)

\* a file that is not valid ends the run at its validation
C25_InvalidAborts ==
    \A i \in 1..Len(calls) :
        (calls[i].op = "validate" /\ ~calls[i].ok) =>
            /\ i = Len(calls)
            /\ pc = "done"
            /\ returnError = C25_FixError(calls[i].obj)
            /\ C25_InUse(calls[i].obj)
            /\ \A k \in {calls[i].obj} \cup C25_Later(calls[i].obj) :
                  ~Issued("create", k)

\* no run gets past a file that is in use and not valid
C25_NeverPastInvalid ==
    \A k \in OverrideKinds :
        (C25_InUse(k) /\ C25_Verdict(k) # "nil") =>
            /\ \A l \in {k} \cup C25_Later(k) : ~Issued("create", l)
            /\ returnError # "nil" \/ pc # "done"

C25_InvalidOverrideAborts ==
    /\ C25_SubmittedAsChosen
    /\ C25_InvalidAborts
    /\ C25_NeverPastInvalid

C25_Witness ==
    /\ csi /\ useYAML
    /\ {"service", "statefulset"} \subseteq files
    /\ overrides["statefulset"].readable
    /\ overrides["statefulset"].podLabels = {}
    /\ \E i \in 1..Len(calls) :
          calls[i] = Entry("create", "service", "file", TRUE)
    /\ ~Issued("create", "statefulset")
    /\ ~Issued("create", "daemonset")
    /\ pc = "done"
    /\ returnError = "please correct the statefulset YAML file"

\* the file is there but the flag is not given: the rendered manifest goes
C25_WitnessIgnored ==
    /\ ~csi /\ ~useYAML
    /\ "deployment" \in files
    /\ C25_Verdict("deployment") # "nil"
    /\ \E i \in 1..Len(calls) :
          calls[i] = Entry("create", "deployment", "", TRUE)
    /\ pc = "done" /\ returnError = "nil"

(***************************************************************************)
(* C26.  Every workload manifest file that passes its validation           *)
(* (deployment, service, stateful-set and daemon-set alike) carries the    *)
(* identity label of the chosen topology on the object and, where it has   *)
(* one, on its pod template, and declares the trident-main container; a    *)
(* file without that label is rejected for each of the four kinds.         *)
(***************************************************************************)
C26_WorkloadKinds == {"deployment", "service", "statefulset", "daemonset"}

\* the identity label selected from the topology flag
C26_TopologyLabel ==
    IF csi THEN "controller.csi.trident.netapp.io" ELSE "trident.netapp.io"

C26_DeclaresContainer(b) ==
    \E c \in b.containers : c.name = "trident-main"

\* the object in the file carries the label `l' wherever it must
C26_Carries(kind, l) ==
    LET b == overrides[kind]
    IN /\ b.readable
       /\ l \in b.labels
       /\ kind \in TemplateKinds =>
            (l \in b.podLabels /\ C26_DeclaresContainer(b))

\* the files that have passed their validation
C26_Validated ==
    {calls[i].obj : i \in {j \in 1..Len(calls) :
        calls[j].op = "validate" /\ calls[j].ok}}

\* the files that have been rejected
C26_Rejected ==
    {calls[i].obj : i \in {j \in 1..Len(calls) :
        calls[j].op = "validate" /\ ~calls[j].ok}}

C26_ValidatedCarriesTopologyLabel ==
    \A k \in C26_WorkloadKinds :
        /\ k \in C26_Validated => C26_Carries(k, C26_TopologyLabel)
        /\ (k \in C26_Validated \cup C26_Rejected
                /\ C26_TopologyLabel \notin overrides[k].labels)
            => k \in C26_Rejected

\* what the validators ensure: the topology label for the deployment, the
\* service and the stateful-set, the node label for the daemon-set
C26_LabelOf(kind) ==
    IF kind = "daemonset" THEN "node.csi.trident.netapp.io"
    ELSE C26_TopologyLabel

C26_ValidatedCarriesLabelOfKind ==
    \A k \in C26_WorkloadKinds :
        /\ k \in C26_Validated => C26_Carries(k, C26_LabelOf(k))
        /\ (k \in C26_Validated \cup C26_Rejected
                /\ C26_LabelOf(k) \notin overrides[k].labels)
            => k \in C26_Rejected

\* a daemon-set file without the topology label is validated and submitted
C26_DaemonSetWithoutTopologyLabel ==
    /\ csi /\ useYAML
    /\ overrides["daemonset"].labels = {"node.csi.trident.netapp.io"}
    /\ \E i \in 1..Len(calls) :
          calls[i] = Entry("create", "daemonset", "file", TRUE)
    /\ pc = "done" /\ returnError = "nil"

\* a daemon-set file that carries the topology label, as the error
\* message asks, is rejected
C26_DaemonSetWithTopologyLabelRejected ==
    /\ csi /\ useYAML
    /\ overrides["daemonset"].labels = {"controller.csi.trident.netapp.io"}
    /\ overrides["daemonset"].podLabels = {"controller.csi.trident.netapp.io"}
    /\ C26_DeclaresContainer(overrides["daemonset"])
    /\ "daemonset" \in C26_Rejected
    /\ returnError = "please correct the daemonset YAML file"

(***************************************************************************)
(* C27.  The workload objects are submitted as the topology says: in the   *)
(* distributed topology the create calls are issued in the order service,  *)
(* stateful-set, daemon-set and no deployment is submitted; in the         *)
(* single-replica topology one deployment is submitted and no service,     *)
(* stateful-set or daemon-set; in both no workload object is submitted     *)
(* before the PVC has been observed bound.                                 *)
(***************************************************************************)
\* the workload objects the run has submitted, in order
C27_Submitted ==
    ObjsOf(SelectSeq(calls, LAMBDA e :
        e.op = "create" /\ e.obj \in {"deployment", "service", "statefulset",
                                      "daemonset"}))

C27_Order ==
    IF csi THEN <<"service", "statefulset", "daemonset">>
    ELSE <<"deployment">>

\* the position of the observation of the bound PVC, 0 if there is none
C27_BoundAt ==
    IF Done("observe", "pvcBound")
        THEN CHOOSE i \in 1..Len(calls) :
                calls[i].op = "observe" /\ calls[i].obj = "pvcBound"
        ELSE 0

C27_WorkloadFollowsTopology ==
    LET submitted == C27_Submitted
        boundAt == C27_BoundAt
    IN  /\ Len(submitted) <= Len(C27_Order)
        /\ submitted = SubSeq(C27_Order, 1, Len(submitted))
        /\ \A j \in 1..Len(calls) :
              (calls[j].op = "create"
                  /\ calls[j].obj \in {"deployment", "service", "statefulset",
                                       "daemonset"})
                => (boundAt > 0 /\ boundAt < j)
        /\ (pc = "done" /\ returnError = "nil" /\ ~dryRun) =>
              submitted = C27_Order

C27_Witness ==
    /\ csi /\ ~dryRun /\ prev = "none"
    /\ C27_Submitted = <<"service", "statefulset", "daemonset">>
    /\ ~Issued("create", "deployment")
    /\ Done("create", "pvc")
    /\ pc = "done" /\ returnError = "nil"

(***************************************************************************)
(* C28.  One RBAC strategy is used per run: native mode if and only if     *)
(* neither a UCP bearer token nor a UCP host was given.  In native mode    *)
(* createRBACObjects creates the service account, the cluster role and the *)
(* cluster role binding, then (on OpenShift only) grants the               *)
(* security-context exemption, and calls UCP for nothing; in UCP mode it   *)
(* creates the service account and the UCP role and attaches the role,     *)
(* and creates no cluster role or binding and grants no exemption.  A      *)
(* step that fails stops the sequence.                                     *)
(***************************************************************************)
C28_Native == ucpBearerToken = "" /\ ucpHost = ""

\* the steps createRBACObjects has taken, in order
C28_SetupSteps ==
    LET cs == SelectSeq(calls, LAMBDA e :
                  e.op \in {"create", "grant", "attach"}
                    /\ e.obj \in {"serviceaccount", "clusterrole",
                                  "clusterrolebinding", "scc", "ucprole",
                                  "ucprolegrant"})
    IN [i \in 1..Len(cs) |-> cs[i].op \o " " \o cs[i].obj]

C28_ExpectedSteps ==
    IF C28_Native
        THEN <<"create serviceaccount", "create clusterrole",
               "create clusterrolebinding">>
             \o (IF flavor = "openshift" THEN <<"grant scc">> ELSE <<>>)
        ELSE <<"create serviceaccount", "create ucprole",
               "attach ucprolegrant">>

\* the teardown calls of the run belong to the same mode
C28_TeardownOfMode ==
    \A i \in 1..Len(calls) :
        calls[i].op \in {"delete", "revoke", "detach"} =>
            IF C28_Native
                THEN calls[i].obj \in {"clusterrolebinding", "clusterrole",
                                       "serviceaccount", "scc"}
                ELSE calls[i].obj \in {"ucprolegrant", "ucprole",
                                       "serviceaccount"}

C28_OneStrategy ==
    /\ Len(C28_SetupSteps) <= Len(C28_ExpectedSteps)
    /\ C28_SetupSteps = SubSeq(C28_ExpectedSteps, 1, Len(C28_SetupSteps))
    /\ C28_TeardownOfMode
    \* a step that fails is the last call of the run
    /\ \A i \in 1..Len(calls) :
          (~calls[i].ok /\ calls[i].op \in {"create", "grant", "attach"}) =>
              (i = Len(calls) /\ pc = "done" /\ returnError # "nil")
    \* a run that goes on has taken every step
    /\ (Issued("observe", "pvcBound") \/ pc \in {"checkPVCBound", "waitPVCBound"})
          => C28_SetupSteps = C28_ExpectedSteps

C28_Witness ==
    /\ ucpBearerToken = "" /\ ucpHost # ""
    /\ flavor = "openshift"
    /\ C28_SetupSteps = <<"create serviceaccount", "create ucprole",
                          "attach ucprolegrant">>
    /\ ~Issued("grant", "scc") /\ ~Issued("revoke", "scc")
    /\ pc = "done" /\ returnError = "nil"

C28_WitnessNative ==
    /\ C28_Native /\ flavor = "openshift"
    /\ C28_SetupSteps = <<"create serviceaccount", "create clusterrole",
                          "create clusterrolebinding", "grant scc">>
    /\ ~calls[Len(calls)].ok
    /\ pc = "done"
    /\ returnError = "could not modify security context constraint"

(***************************************************************************)
(* C29.  The RBAC teardown is best-effort and complete: in every call of   *)
(* removeRBACObjects each teardown step of the active mode is attempted    *)
(* exactly once, whatever became of the steps before it, in the order      *)
(* binding, role, service account, security-context exemption (native) or  *)
(* detach role, delete role, service account (UCP); the flag returned is   *)
(* true if and only if at least one attempted step failed.                 *)
(***************************************************************************)
\* the teardown steps taken, in order, and those among them that failed
C29_Teardown ==
    SelectSeq(calls, LAMBDA e : e.op \in {"delete", "revoke", "detach"})

C29_Steps ==
    [i \in 1..Len(C29_Teardown) |->
        C29_Teardown[i].op \o " " \o C29_Teardown[i].obj]

C29_ExpectedSteps ==
    IF ucpBearerToken = "" /\ ucpHost = ""
        THEN <<"delete clusterrolebinding", "delete clusterrole",
               "delete serviceaccount">>
             \o (IF flavor = "openshift" THEN <<"revoke scc">> ELSE <<>>)
        ELSE <<"detach ucprolegrant", "delete ucprole",
               "delete serviceaccount">>

C29_InTeardown ==
    pc \in {"rmClusterRoleBinding", "rmClusterRole", "rmUCPRoleFromSA",
            "rmUCPRole", "rmServiceAccount", "rmSCC"}

\* removeRBACObjects has returned
C29_Returned == Len(C29_Teardown) > 0 /\ ~C29_InTeardown

C29_AnyFailed == \E i \in 1..Len(C29_Teardown) : ~C29_Teardown[i].ok

\* every step once, in order, whatever the outcomes
C29_EveryStepOnce ==
    /\ Len(C29_Steps) <= Len(C29_ExpectedSteps)
    /\ C29_Steps = SubSeq(C29_ExpectedSteps, 1, Len(C29_Steps))
    /\ C29_Returned => C29_Steps = C29_ExpectedSteps

C29_TeardownBestEffort ==
    /\ C29_EveryStepOnce
    /\ C29_Returned => (anyErrors <=> C29_AnyFailed)

\* what does hold: the flag tells the failures of the Kubernetes steps
C29_FlagOfKubernetesSteps ==
    /\ C29_EveryStepOnce
    /\ C29_Returned =>
          (anyErrors <=>
              \E i \in 1..Len(C29_Teardown) :
                  /\ ~C29_Teardown[i].ok
                  /\ C29_Teardown[i].obj \notin {"ucprole", "ucprolegrant"})

\* the first step has failed, the others have been attempted all the same,
\* and the flag returned is false
C29_FailureNotFlagged ==
    /\ C29_Returned
    /\ ~C29_Teardown[1].ok
    /\ C29_Steps = <<"detach ucprolegrant", "delete ucprole",
                     "delete serviceaccount">>
    /\ ~anyErrors
    /\ Issued("create", "serviceaccount")

\* native mode: the first step has failed, the others have been attempted
C29_NativeBestEffort ==
    /\ C29_Returned
    /\ ~C29_Teardown[1].ok
    /\ C29_Steps = <<"delete clusterrolebinding", "delete clusterrole",
                     "delete serviceaccount", "revoke scc">>
    /\ anyErrors
    /\ pc = "done"

(***************************************************************************)
(* C30.  The prior-installation guard comes before every other probe and   *)
(* before any mutation: when an installation of the selected topology is   *)
(* present, or the check itself fails, installTrident returns an error     *)
(* having queried neither namespace, PVC nor PV and having changed         *)
(* nothing; in the distributed topology a cluster older than the CSI       *)
(* minimum aborts even before the prior-installation check.                *)
(***************************************************************************)
C30_Workload == IF csi THEN "statefulset" ELSE "deployment"

\* the workload object of the topology was there when the run started
C30_InstalledBefore ==
    C30_Workload \in objs /\ ~Done("create", C30_Workload)

\* the run is past the guard
C30_PastGuard == pc \notin {"start", "checkInstalled"}

C30_GuardErrors == {"could not check if Trident exists",
                    "Trident is already installed"}

C30_TooOldForCSI == csi /\ version < 10

C30_GuardFirst ==
    \* the guard is the first call of every run
    /\ Len(calls) > 0 =>
          (calls[1].op = "check" /\ calls[1].obj = "installed")
    \* an installation that is present, or a check that fails, ends the run
    /\ (C30_PastGuard /\ Len(calls) > 0
            /\ (C30_InstalledBefore \/ ~calls[1].ok)) =>
          /\ Len(calls) = 1
          /\ pc = "done"
          /\ returnError = (IF calls[1].ok
                                THEN "Trident is already installed"
                                ELSE "could not check if Trident exists")
    /\ (pc = "done" /\ returnError \in C30_GuardErrors) => Len(calls) = 1
    \* a cluster too old for CSI is refused with no call at all
    /\ C30_TooOldForCSI =>
          /\ calls = <<>>
          /\ C30_PastGuard =>
                (pc = "done"
                    /\ returnError \in
                        {"CSI Trident requires a later Kubernetes",
                         "volume-size is invalid"})

C30_Witness ==
    /\ csi
    /\ C30_InstalledBefore
    /\ {"service", "statefulset", "daemonset"} \subseteq objs
    /\ calls = <<Entry("check", "installed", "", TRUE)>>
    /\ pc = "done"
    /\ returnError = "Trident is already installed"

C30_WitnessTooOld ==
    /\ C30_TooOldForCSI
    /\ "namespace" \in objs /\ pvc # NoPVC
    /\ calls = <<>>
    /\ pc = "done"
    /\ returnError = "CSI Trident requires a later Kubernetes"

(***************************************************************************)
(* C31.  When the pod-running wait times out, the error that               *)
(* waitForTridentPod returns (and installTrident returns) carries the      *)
(* elapsed time and the best available diagnostics: the pod's last known   *)
(* phase and the inspection hint whenever a pod was found during the wait. *)
(***************************************************************************)
\* the run has returned the error of a pod wait that timed out
C31_PodWaitTimedOut == pc = "done" /\ returnError = "pod not running"

\* the sentences put together at lines 1412-1427
C31_Detail ==
    {calls[i].arg : i \in {j \in 1..Len(calls) : calls[j].op = "log"}}

\* the sentences the returned error consists of
C31_Sentences(err) == {err}

C31_ElapsedTime == "Trident pod was not running after k8sTimeout seconds."
C31_Hint == "Use 'describe pod' for more information."

\* the returned error carries every sentence of the detail
C31_ReturnedErrorCarriesDetail ==
    C31_PodWaitTimedOut =>
        /\ C31_ElapsedTime \in C31_Sentences(returnError)
        /\ C31_Detail \subseteq C31_Sentences(returnError)

\* what the code does: the detail is written to the log only, the elapsed
\* time always, the phase and the hint when the last lookup found a pod
C31_DetailIsLogged ==
    C31_PodWaitTimedOut =>
        /\ C31_ElapsedTime \in C31_Detail
        /\ (C31_Hint \in C31_Detail) <=> ("Pod status is Pending." \in C31_Detail)
        /\ C31_Hint \in C31_Detail => pod # "none"
        /\ C31_Sentences(returnError) \cap C31_Detail = {}

\* a wait timed out with a pending pod in sight
C31_WitnessPodSeen ==
    /\ C31_PodWaitTimedOut
    /\ pod = "Pending"
    /\ C31_Hint \in C31_Detail

(***************************************************************************)
(* C32.  At most one backend volume is allocated per run, and only when    *)
(* needed: AddVolume is called at most once in any run and only if the     *)
(* initial probe found the PV absent; whenever createPV is called the      *)
(* storage backend handle it receives was loaded earlier in the same run   *)
(* (it is never nil); when the PV already exists neither the backend load  *)
(* nor AddVolume nor a PV create call happens.                             *)
(***************************************************************************)
\* the AddVolume calls of the run
C32_Allocations == {i \in 1..Len(calls) : calls[i].op = "alloc"}

\* createPV has been called in this run
C32_CreatePVCalled ==
    \/ pc \in {"createPV", "checkSecret", "createSecret", "createPVObject"}
    \/ \E i \in 1..Len(calls) :
          \/ calls[i].op = "alloc"
          \/ calls[i].obj = "pv" /\ calls[i].op = "create"
          \/ calls[i].obj = "secret"

C32_OneVolumeWhenNeeded ==
    /\ LET allocations == C32_Allocations
       IN  /\ Cardinality(allocations) <= 1
           /\ allocations # {} => (~pvExists /\ Done("check", "pv"))
    /\ C32_CreatePVCalled =>
          /\ ~pvExists
          /\ storageBackend # NilBackend
          /\ Done("load", "backend")
    /\ pvExists =>
          /\ ~Issued("load", "backend")
          /\ ~Issued("alloc", "volume")
          /\ ~Issued("create", "pv")

\* a run that found no PV has allocated one volume and created the PV
C32_Witness ==
    /\ pc = "done" /\ returnError = "nil" /\ ~dryRun
    /\ ~pvExists
    /\ Cardinality(C32_Allocations) = 1
    /\ Done("load", "backend")
    /\ Done("create", "pv")

\* a run that found the PV has succeeded without the backend
C32_WitnessPVExists ==
    /\ pc = "done" /\ returnError = "nil" /\ ~dryRun
    /\ pvExists
    /\ Done("get", "pv")
    /\ storageBackend = NilBackend
    /\ Done("observe", "restVersion")

(***************************************************************************)
(* C33.  Across any sequence of sequential install runs of one topology in *)
(* native RBAC mode, with any failures of collaborator calls: if the       *)
(* workload object of the topology (deployment, or stateful-set) exists,   *)
(* then the service account, cluster role and cluster role binding exist;  *)
(* once the workload exists, every later run stops at the                  *)
(* prior-installation guard before its RBAC teardown, so no run deletes    *)
(* RBAC objects under an installed workload.                               *)
(***************************************************************************)
C33_Workload == IF csi THEN "statefulset" ELSE "deployment"

C33_KubernetesRBAC == {"serviceaccount", "clusterrole", "clusterrolebinding"}

\* the run began with the workload object in the cluster
C33_LaterRun == C33_Workload \in objs /\ ~Issued("create", C33_Workload)

\* the run has attempted a step of removeRBACObjects
C33_TeardownBegun ==
    \/ pc \in {"rmClusterRoleBinding", "rmClusterRole", "rmServiceAccount",
               "rmSCC"}
    \/ \E i \in 1..Len(calls) : calls[i].op \in {"delete", "revoke"}

C33_RBACUnderWorkload ==
    useKubernetesRBAC =>
        /\ C33_Workload \in objs => C33_KubernetesRBAC \subseteq objs
        /\ C33_LaterRun =>
              /\ ~C33_TeardownBegun
              /\ ~Mutated(calls)
              /\ pc \in {"start", "checkInstalled", "done"}
              /\ pc = "done" =>
                    returnError \in {"Trident is already installed",
                                     "could not check if Trident exists"}

\* a run after one that timed out with the workload created has stopped at
\* the guard, the RBAC objects in place
C33_Witness ==
    /\ useKubernetesRBAC /\ ~dryRun
    /\ prev = "pod not running"
    /\ C33_LaterRun
    /\ pc = "done" /\ returnError = "Trident is already installed"
    /\ C33_KubernetesRBAC \subseteq objs

\* a later run whose guard query failed has stopped as well
C33_WitnessGuardFailed ==
    /\ useKubernetesRBAC /\ ~dryRun
    /\ C33_LaterRun /\ prev # "none"
    /\ pc = "done" /\ returnError = "could not check if Trident exists"
    /\ C33_KubernetesRBAC \subseteq objs

(***************************************************************************)
(* C34.  Every install run terminates: with a positive finite poll         *)
(* timeout, each of the three readiness waits ends either because its      *)
(* predicate succeeded or because the time budget expired, there is no     *)
(* other loop in the flow, and so every run eventually returns either      *)
(* success or an error, whatever the cluster and backend answer.           *)
(***************************************************************************)
C34_Waits == {"waitPVCBound", "waitPod", "waitREST"}

\* a run that has not returned eventually returns
C34_EveryRunReturns == (pc # "done") ~> (pc = "done")

\* a wait is left within its budget: the time slept never exceeds the
\* maximum by more than the last interval
C34_WaitsBounded ==
    /\ k8sTimeout > 0
    /\ pc \in C34_Waits =>
          /\ backoff.elapsed - backoff.interval \div 2 <= k8sTimeout
          /\ backoff.interval <= 2 * (k8sTimeout + 1)

\* a run has returned because the budget of a wait expired
C34_Witness ==
    /\ pc = "done"
    /\ returnError \in TimeoutErrors
    /\ backoff.elapsed > k8sTimeout

\* a run has returned after all three waits ended with their predicates
C34_WitnessSucceeded ==
    /\ pc = "done" /\ returnError = "nil" /\ ~dryRun
    /\ Done("observe", "pvcBound")
    /\ Done("observe", "podRunning")
    /\ Done("observe", "restVersion")

(***************************************************************************)
(* C35.  The probes and the prior-installation guard are check-then-act    *)
(* with no lock or atomic step: when two install runs on the same          *)
(* namespace are interleaved, both can pass the prior-installation check   *)
(* and the existence probes, both can issue create calls for the same      *)
(* objects, and the RBAC teardown of one run can delete RBAC objects that  *)
(* the other run has just created; mutual exclusion between runs is not    *)
(* enforced by the program.                                                *)
(***************************************************************************)
C35_DoneIn(cs, op, obj) ==
    \E i \in 1..Len(cs) : cs[i].op = op /\ cs[i].obj = obj /\ cs[i].ok

C35_IssuedIn(cs, op, obj) ==
    \E i \in 1..Len(cs) : cs[i].op = op /\ cs[i].obj = obj

C35_KubernetesRBAC == {"serviceaccount", "clusterrole", "clusterrolebinding"}

C35_Created == {"namespace", "serviceaccount", "clusterrole",
                "clusterrolebinding", "pvc", "pv", "deployment"}

\* no step of a run waits for the other run: a run that has not returned
\* can take its next step wherever the other run stands
C35_NoMutualExclusion == pc # "done" => ENABLED installTrident

\* both runs are past the guard and the probes, nothing changed yet, each
\* having found neither an installation nor a claim nor a volume
C35_BothPastChecks ==
    /\ other.run # 0
    /\ ~Mutated(calls) /\ ~Mutated(other.calls)
    /\ pc = "loadStorageDriver" /\ other.pc = "loadStorageDriver"
    /\ ~pvcExists /\ ~other.pvcExists
    /\ ~pvExists /\ ~other.pvExists

\* both runs have issued a create call for every object of the install
C35_BothCreate ==
    \A x \in C35_Created \ {"namespace"} :
        /\ C35_IssuedIn(calls, "create", x)
        /\ C35_IssuedIn(other.calls, "create", x)

\* an RBAC object that the suspended run created is gone: this run's
\* teardown has deleted it (a run deletes only before it creates)
C35_DeletedUnderOther(x) ==
    /\ C35_DoneIn(other.calls, "create", x)
    /\ C35_DoneIn(calls, "delete", x)
    /\ x \notin objs

\* the race of the claim: both runs passed the guard and the probes, both
\* issued create calls for the same RBAC object, and one run's teardown
\* removed what the other had created
C35_Witness ==
    /\ other.run # 0
    /\ C35_DoneIn(calls, "check", "installed")
    /\ C35_DoneIn(other.calls, "check", "installed")
    /\ C35_DoneIn(calls, "check", "pv")
    /\ C35_DoneIn(other.calls, "check", "pv")
    /\ \E x \in C35_KubernetesRBAC : C35_DeletedUnderOther(x)
    /\ \E x \in C35_KubernetesRBAC :
          /\ C35_IssuedIn(calls, "create", x)
          /\ C35_IssuedIn(other.calls, "create", x)

\* the suspended run has reported success although its cluster role is gone
C35_WitnessSuccessWithoutRole ==
    /\ other.run # 0
    /\ other.pc = "done" /\ other.returnError = "nil"
    /\ C35_DeletedUnderOther("clusterrole")
    /\ "deployment" \in objs
    /\ "clusterrole" \notin objs

=============================================================================
